---- MODULE Spec2Model ----
(***************************************************************************)
(* agent-react-devtools: the component tree fed by the React DevTools      *)
(* operations stream (component-tree.ts) and the WebSocket bridge that     *)
(* owns the peer connections and the pending element inspections           *)
(* (devtools-bridge.ts), the profiler (profiler.ts), and the daemon with   *)
(* its IPC socket and state directory (daemon.ts, daemon-client.ts).       *)
(*                                                                         *)
(* Conventions.  An operations batch is the flat integer array of the      *)
(* wire.  Cursors are 0-based as in the source; At(ops, i) is the JS read  *)
(* operations[i].  A string is the sequence of its code points.  A null    *)
(* parentId is written Null (the source maps the wire value 0 to null, so  *)
(* no non-null parentId is ever 0).                                        *)
(***************************************************************************)
EXTENDS Integers, Sequences, FiniteSets, TLC

VARIABLES
    nodes,              \* ComponentTree.nodes: id -> ComponentNode
    roots,              \* ComponentTree.roots
    nameIndex,          \* ComponentTree.nameIndex: lower-case name -> set of ids
    extendedAddFormat,  \* ComponentTree.extendedAddFormat
    labelToId,          \* ComponentTree.labelToId (label @cN is written N)
    idToLabel,          \* ComponentTree.idToLabel
    connections,        \* DevToolsBridge.connections
    closing,            \* the connections whose readyState is CLOSING
    connectionRoots,    \* DevToolsBridge.connectionRoots: ws -> set of root ids
    rendererIds,        \* DevToolsBridge.rendererIds
    pendingInspections, \* DevToolsBridge.pendingInspections: id -> request
    requests,           \* the inspectElement promises and their timers
    now,                \* the clock, in milliseconds
    response,           \* the result of the operation handled last
    session,            \* Profiler.session
    displayNames,       \* Profiler.displayNames: id -> name
    stopsPending,       \* the profile-stop handlers that wait in the bridge, oldest first:
                        \* for each the time at which its grace timer was set
    files,              \* the state directory: daemon.json and daemon.sock
    procs,              \* the daemon processes: pid -> its position in start()
    ipcBuffer,          \* the buffer of the data handler of an IPC connection
    ipcOut,             \* the response lines written to that connection
    sent,               \* the messages the step handled last sent: ws -> messages
    recentEvents,       \* ConnectionHealth.recentEvents
    hasEverConnected,   \* ConnectionHealth.hasEverConnected
    lastDisconnectAt,   \* ConnectionHealth.lastDisconnectAt
    waiters             \* the wait commands and their timers

vars == <<nodes, roots, nameIndex, extendedAddFormat, labelToId, idToLabel,
          connections, closing, connectionRoots, rendererIds, pendingInspections,
          requests, now, response, session, displayNames, stopsPending,
          files, procs, ipcBuffer, ipcOut, sent, recentEvents, hasEverConnected,
          lastDisconnectAt, waiters>>

treeVars == <<nodes, roots, nameIndex, extendedAddFormat>>
labelVars == <<labelToId, idToLabel>>
inspectVars == <<pendingInspections, requests, now>>
bridgeVars == <<connections, closing, connectionRoots, rendererIds>>
profilerVars == <<session, displayNames, stopsPending>>
daemonVars == <<files, procs>>
ipcVars == <<ipcBuffer, ipcOut>>
healthVars == <<recentEvents, hasEverConnected, lastDisconnectAt>>
eventVars == <<healthVars, waiters>>

----------------------------------------------------------------------------
(* Bounds of the model *)

MaxChildren == 2        \* longest child list an ADD may extend
MaxDepth == 4           \* call depth at which the recursive walks overflow

----------------------------------------------------------------------------
(* Opcodes and element types: component-tree.ts:15-45 *)

TREE_OPERATION_ADD == 1
TREE_OPERATION_REMOVE == 2
TREE_OPERATION_REORDER_CHILDREN == 3
TREE_OPERATION_UPDATE_TREE_BASE_DURATION == 4
TREE_OPERATION_UPDATE_ERRORS_OR_WARNINGS == 5
TREE_OPERATION_REMOVE_ROOT == 6
TREE_OPERATION_SET_SUBTREE_MODE == 7
SUSPENSE_TREE_OPERATION_ADD == 8
SUSPENSE_TREE_OPERATION_REMOVE == 9
SUSPENSE_TREE_OPERATION_REORDER_CHILDREN == 10
SUSPENSE_TREE_OPERATION_RESIZE == 11
SUSPENSE_TREE_OPERATION_SUSPENDERS == 12
TREE_OPERATION_APPLIED_ACTIVITY_SLICE_CHANGE == 13

ELEMENT_TYPE_CLASS == 1
ELEMENT_TYPE_FUNCTION == 5
ELEMENT_TYPE_FORWARD_REF == 6
ELEMENT_TYPE_HOST == 7
ELEMENT_TYPE_MEMO == 8
ELEMENT_TYPE_PROFILER == 10
ELEMENT_TYPE_ROOT == 11
ELEMENT_TYPE_SUSPENSE == 12

toComponentType(elementType) ==
    CASE elementType = ELEMENT_TYPE_CLASS -> "class"
      [] elementType = ELEMENT_TYPE_FUNCTION -> "function"
      [] elementType = ELEMENT_TYPE_FORWARD_REF -> "forwardRef"
      [] elementType = ELEMENT_TYPE_HOST -> "host"
      [] elementType = ELEMENT_TYPE_MEMO -> "memo"
      [] elementType = ELEMENT_TYPE_PROFILER -> "profiler"
      [] elementType = ELEMENT_TYPE_SUSPENSE -> "suspense"
      [] elementType = ELEMENT_TYPE_ROOT -> "other"
      [] OTHER -> "other"

----------------------------------------------------------------------------
(* JavaScript values *)

\* The value of a read past either end of an array, and of arithmetic on it
\* (undefined and NaN: every comparison with it is false).
Undefined == 0 - 1000000

\* null as a parentId
Null == 0

\* null as a string; the source never stores the empty string as a name or a
\* key (stringTable[k] || null), so the empty sequence is free to stand for it
NullStr == <<>>

At(ops, i) == IF i # Undefined /\ i >= 0 /\ i < Len(ops) THEN ops[i + 1] ELSE Undefined

Plus(a, b) == IF a = Undefined \/ b = Undefined THEN Undefined ELSE a + b

Times(a, b) == IF a = Undefined \/ b = Undefined THEN Undefined ELSE a * b

Lt(a, b) == a # Undefined /\ b # Undefined /\ a < b

\* String.prototype.toLowerCase on the code points of the model's names
toLowerCase(str) == [k \in 1..Len(str) |-> IF str[k] >= 65 /\ str[k] <= 90 THEN str[k] + 32 ELSE str[k]]

STR_Root == <<82, 111, 111, 116>>
STR_Anonymous == <<65, 110, 111, 110, 121, 109, 111, 117, 115>>
STR_HostComponent == <<72, 111, 115, 116, 67, 111, 109, 112, 111, 110, 101, 110, 116>>

\* Array.prototype.filter((c) => c !== id)
RECURSIVE Without(_, _)
Without(seq, id) ==
    IF seq = <<>> THEN <<>>
    ELSE IF Head(seq) = id THEN Without(Tail(seq), id)
    ELSE <<Head(seq)>> \o Without(Tail(seq), id)

Includes(seq, id) == \E k \in 1..Len(seq) : seq[k] = id

\* Map.prototype.set / delete on a function
MapSet(f, k, v) == [x \in DOMAIN f \cup {k} |-> IF x = k THEN v ELSE f[x]]

MapDelete(f, k) == [x \in DOMAIN f \ {k} |-> f[x]]

EmptyMap == [x \in {} |-> 0]

----------------------------------------------------------------------------
(* ComponentTree state as one value *)

EmptyTree == [nodes |-> EmptyMap, roots |-> <<>>, nameIndex |-> EmptyMap,
              ext |-> FALSE, threw |-> FALSE]

Tree == [nodes |-> nodes, roots |-> roots, nameIndex |-> nameIndex,
         ext |-> extendedAddFormat, threw |-> FALSE]

----------------------------------------------------------------------------
(* String table: component-tree.ts:116-127 *)

\* String.fromCodePoint throws a RangeError on anything but 0..0x10FFFF
ValidCodePoint(cp) == cp # Undefined /\ cp >= 0 /\ cp <= 1114111

\* the for loop over the code points of one string
RECURSIVE readString(_, _, _, _)
readString(ops, i, strLen, str) ==
    IF ~Lt(Len(str), strLen) THEN [threw |-> FALSE, i |-> i, str |-> str]
    ELSE IF ~ValidCodePoint(At(ops, i)) THEN [threw |-> TRUE, i |-> i, str |-> str]
    ELSE readString(ops, i + 1, strLen, Append(str, At(ops, i)))

\* the while loop over the table; table[k] is stringTable[k] for k >= 1
RECURSIVE readStringTable(_, _, _, _)
readStringTable(ops, i, stringTableEnd, table) ==
    IF ~Lt(i, stringTableEnd) THEN [threw |-> FALSE, i |-> i, table |-> table]
    ELSE LET s == readString(ops, i + 1, At(ops, i), <<>>)
         IN IF s.threw THEN [threw |-> TRUE, i |-> s.i, table |-> table]
            ELSE readStringTable(ops, s.i, stringTableEnd, Append(table, s.str))

\* a decoder that takes the string table to be empty whatever size is declared
parseStringTableUnsized(ops) == [threw |-> FALSE, i |-> 3, table |-> <<>>]

parseStringTable(ops) == readStringTable(ops, 3, Plus(3, At(ops, 2)), <<>>)

\* stringTable[k] || null : an absent or empty entry is falsy
StringOf(table, k) ==
    IF k # Undefined /\ k > 0 /\ k <= Len(table) /\ table[k] # <<>> THEN table[k] ELSE NullStr

----------------------------------------------------------------------------
(* removeNode: component-tree.ts:321-352 *)

RemoveFromNameIndex(idx, name, id) ==
    LET lower == toLowerCase(name)
    IN IF lower \notin DOMAIN idx THEN idx
       ELSE IF idx[lower] \ {id} = {} THEN MapDelete(idx, lower)
       ELSE [idx EXCEPT ![lower] = idx[lower] \ {id}]

RECURSIVE removeNode(_, _, _)
RECURSIVE removeChildren(_, _, _)

\* depth counts the frames of the recursion; past MaxDepth the call stack
\* overflows and the walk is abandoned with what it has changed so far
removeNode(T, id, depth) ==
    IF T.threw \/ id \notin DOMAIN T.nodes THEN T
    ELSE IF depth > MaxDepth THEN [T EXCEPT !.threw = TRUE]
    ELSE
    LET node == T.nodes[id]
        T1 == IF node.parentId # Null /\ node.parentId \in DOMAIN T.nodes
              THEN [T EXCEPT !.nodes[node.parentId].children = Without(@, id)]
              ELSE T
        T2 == [T1 EXCEPT !.roots = Without(@, id),
                         !.nameIndex = RemoveFromNameIndex(@, node.displayName, id)]
        T3 == removeChildren(T2, T2.nodes[id].children, depth + 1)
    IN IF T3.threw THEN T3 ELSE [T3 EXCEPT !.nodes = MapDelete(@, id)]

removeChildren(T, children, depth) ==
    IF children = <<>> \/ T.threw THEN T
    ELSE removeChildren(removeNode(T, Head(children), depth), Tail(children), depth)

\* the loop of TREE_OPERATION_REMOVE over operations[i+2 .. i+1+numRemoved]
RECURSIVE removeEach(_, _, _, _, _)
removeEach(T, ops, i, j, numRemoved) ==
    IF ~Lt(j, numRemoved) \/ T.threw THEN T
    ELSE removeEach(removeNode(T, At(ops, i + 2 + j), 0), ops, i, j + 1, numRemoved)

----------------------------------------------------------------------------
(* applyOperations: component-tree.ts:108-319 *)

\* a skipRects that takes every rects field for the null one
skipRectsNull(ops, i) == Plus(i, 1)

skipRects(ops, i) ==
    LET count == At(ops, i)
    IN IF count = 0 - 1 THEN Plus(i, 1) ELSE Plus(Plus(i, 1), Times(count, 4))

\* a Root ADD that pushes the id onto roots without looking for it
addRootTwice(T, id, rendererId) ==
    LET node == [displayName |-> STR_Root, type |-> "other", key |-> NullStr,
                 parentId |-> Null, children |-> <<>>, rendererId |-> rendererId]
    IN [T EXCEPT !.nodes = MapSet(@, id, node),
                 !.roots = Append(@, id)]

addRoot(T, id, rendererId) ==
    LET node == [displayName |-> STR_Root, type |-> "other", key |-> NullStr,
                 parentId |-> Null, children |-> <<>>, rendererId |-> rendererId]
    IN [T EXCEPT !.nodes = MapSet(@, id, node),
                 !.roots = IF Includes(@, id) THEN @ ELSE Append(@, id)]

\* an ADD that forgets to enter the node into its parent's child list
addNodeUnlinked(T, table, id, elementType, parentId, displayNameStringId, keyStringId, rendererId) ==
    LET named == IF Lt(0, displayNameStringId) THEN StringOf(table, displayNameStringId) ELSE NullStr
        displayName == IF named # NullStr THEN named
                       ELSE IF elementType = ELEMENT_TYPE_HOST THEN STR_HostComponent
                       ELSE STR_Anonymous
        key == IF Lt(0, keyStringId) THEN StringOf(table, keyStringId) ELSE NullStr
        node == [displayName |-> displayName, type |-> toComponentType(elementType),
                 key |-> key, parentId |-> IF parentId = 0 THEN Null ELSE parentId,
                 children |-> <<>>, rendererId |-> rendererId]
        lower == toLowerCase(displayName)
    IN [T EXCEPT !.nodes = MapSet(@, id, node),
                 !.roots = IF parentId = 0 /\ ~Includes(@, id) THEN Append(@, id) ELSE @,
                 !.nameIndex = MapSet(@, lower, (IF lower \in DOMAIN @ THEN @[lower] ELSE {}) \cup {id})]

addNode(T, table, id, elementType, parentId, displayNameStringId, keyStringId, rendererId) ==
    LET named == IF Lt(0, displayNameStringId) THEN StringOf(table, displayNameStringId) ELSE NullStr
        displayName == IF named # NullStr THEN named
                       ELSE IF elementType = ELEMENT_TYPE_HOST THEN STR_HostComponent
                       ELSE STR_Anonymous
        key == IF Lt(0, keyStringId) THEN StringOf(table, keyStringId) ELSE NullStr
        node == [displayName |-> displayName, type |-> toComponentType(elementType),
                 key |-> key, parentId |-> IF parentId = 0 THEN Null ELSE parentId,
                 children |-> <<>>, rendererId |-> rendererId]
        N1 == MapSet(T.nodes, id, node)
        N2 == IF parentId # 0 /\ parentId \in DOMAIN N1
              THEN [N1 EXCEPT ![parentId].children = Append(@, id)]
              ELSE N1
        lower == toLowerCase(displayName)
    IN [T EXCEPT !.nodes = N2,
                 !.roots = IF parentId = 0 /\ ~Includes(@, id) THEN Append(@, id) ELSE @,
                 !.nameIndex = MapSet(@, lower, (IF lower \in DOMAIN @ THEN @[lower] ELSE {}) \cup {id})]

\* the first of the children only
sliceFirst(ops, from, count) == IF ~Lt(0, count) THEN <<>> ELSE <<At(ops, from)>>

\* operations[i+3 .. i+2+numChildren]
RECURSIVE slice(_, _, _)
slice(ops, from, count) ==
    IF ~Lt(0, count) THEN <<>>
    ELSE <<At(ops, from)>> \o slice(ops, from + 1, count - 1)

\* an ADD that is always read in the 7-value shape
addSizeShort(T) == 7

\* the integers of an ADD that is no Root: the extended format has one more
addSize(T) == IF T.ext THEN 8 ELSE 7

\* one iteration of the opcode loop: the tree and the cursor after it
step(T, ops, i, table) ==
    LET op == At(ops, i)
        rendererId == At(ops, 0)
    IN CASE op = TREE_OPERATION_ADD ->
              IF At(ops, i + 2) = ELEMENT_TYPE_ROOT
              THEN [T |-> addRoot(T, At(ops, i + 1), rendererId), i |-> i + 7]
              ELSE [T |-> addNode(T, table, At(ops, i + 1), At(ops, i + 2), At(ops, i + 3),
                                  At(ops, i + 5), At(ops, i + 6), rendererId),
                    i |-> i + addSize(T)]
         [] op = TREE_OPERATION_REMOVE ->
              [T |-> removeEach(T, ops, i, 0, At(ops, i + 1)),
               i |-> Plus(i + 2, At(ops, i + 1))]
         [] op = TREE_OPERATION_REORDER_CHILDREN ->
              LET id == At(ops, i + 1)
                  numChildren == At(ops, i + 2)
              IN [T |-> IF id \in DOMAIN T.nodes
                        THEN [T EXCEPT !.nodes[id].children = slice(ops, i + 3, numChildren)]
                        ELSE T,
                  i |-> Plus(i + 3, numChildren)]
         [] op = TREE_OPERATION_UPDATE_TREE_BASE_DURATION -> [T |-> T, i |-> i + 3]
         [] op = TREE_OPERATION_UPDATE_ERRORS_OR_WARNINGS -> [T |-> T, i |-> i + 4]
         [] op = TREE_OPERATION_REMOVE_ROOT -> [T |-> T, i |-> i + 1]
         [] op = TREE_OPERATION_SET_SUBTREE_MODE -> [T |-> T, i |-> i + 3]
         [] op = SUSPENSE_TREE_OPERATION_ADD ->
              [T |-> [T EXCEPT !.ext = TRUE], i |-> skipRects(ops, i + 5)]
         [] op = SUSPENSE_TREE_OPERATION_REMOVE ->
              [T |-> [T EXCEPT !.ext = TRUE], i |-> Plus(i + 2, At(ops, i + 1))]
         [] op = SUSPENSE_TREE_OPERATION_REORDER_CHILDREN ->
              [T |-> [T EXCEPT !.ext = TRUE], i |-> Plus(i + 3, At(ops, i + 2))]
         [] op = SUSPENSE_TREE_OPERATION_RESIZE ->
              [T |-> [T EXCEPT !.ext = TRUE], i |-> skipRects(ops, i + 2)]
         [] op = SUSPENSE_TREE_OPERATION_SUSPENDERS ->
              [T |-> [T EXCEPT !.ext = TRUE], i |-> Plus(i + 2, Times(At(ops, i + 1), 4))]
         [] op = TREE_OPERATION_APPLIED_ACTIVITY_SLICE_CHANGE ->
              [T |-> [T EXCEPT !.ext = TRUE], i |-> i + 2]
         [] OTHER -> [T |-> T, i |-> i + 1]

\* the opcode loop
RECURSIVE opLoop(_, _, _, _)
opLoop(T, ops, i, table) ==
    IF T.threw \/ ~Lt(i, Len(ops)) THEN T
    ELSE LET s == step(T, ops, i, table) IN opLoop(s.T, ops, s.i, table)

applyOperations(T, ops) ==
    IF Len(ops) < 2 THEN T
    ELSE LET st == parseStringTable(ops)
         IN IF st.threw THEN [T EXCEPT !.threw = TRUE]
            ELSE opLoop(T, ops, st.i, st.table)

----------------------------------------------------------------------------
(* getTree: component-tree.ts:358-395 *)

\* maxDepth of a getTree() call without an argument
NoLimit == Undefined

RECURSIVE walk(_, _, _, _, _)
RECURSIVE walkChildren(_, _, _, _, _)

\* a walk that stops one level early
walkShallow(N, id, depth, maxDepth, acc) ==
    IF acc.threw \/ id \notin DOMAIN N THEN acc
    ELSE IF depth > MaxDepth THEN [acc EXCEPT !.threw = TRUE]
    ELSE IF maxDepth # NoLimit /\ depth >= maxDepth THEN acc
    ELSE
    LET node == N[id]
        label == Len(acc.result) + 1
        entry == [id |-> id, label |-> label, displayName |-> node.displayName,
                  type |-> node.type, key |-> node.key, parentId |-> node.parentId,
                  children |-> node.children, depth |-> depth]
        acc1 == [acc EXCEPT !.result = Append(@, entry),
                            !.labelToId = MapSet(@, label, id),
                            !.idToLabel = MapSet(@, id, label)]
    IN walkChildren(N, node.children, depth + 1, maxDepth, acc1)

\* acc.result is the array being built, labelCounter is Len(acc.result) + 1
walk(N, id, depth, maxDepth, acc) ==
    IF acc.threw \/ id \notin DOMAIN N THEN acc
    ELSE IF depth > MaxDepth THEN [acc EXCEPT !.threw = TRUE]
    ELSE IF maxDepth # NoLimit /\ depth > maxDepth THEN acc
    ELSE
    LET node == N[id]
        label == Len(acc.result) + 1
        entry == [id |-> id, label |-> label, displayName |-> node.displayName,
                  type |-> node.type, key |-> node.key, parentId |-> node.parentId,
                  children |-> node.children, depth |-> depth]
        acc1 == [acc EXCEPT !.result = Append(@, entry),
                            !.labelToId = MapSet(@, label, id),
                            !.idToLabel = MapSet(@, id, label)]
    IN walkChildren(N, node.children, depth + 1, maxDepth, acc1)

walkChildren(N, children, depth, maxDepth, acc) ==
    IF children = <<>> \/ acc.threw THEN acc
    ELSE walkChildren(N, Tail(children), depth, maxDepth,
                      walk(N, Head(children), depth, maxDepth, acc))

getTree(N, R, maxDepth) ==
    walkChildren(N, R, 0, maxDepth,
                 [result |-> <<>>, labelToId |-> EmptyMap, idToLabel |-> EmptyMap, threw |-> FALSE])

----------------------------------------------------------------------------
(* Inputs: the peers and the batches they send *)

Peers == {"A", "B"}

\* the peer whose backend emits the opcodes 8..13; the other one never does
NewBackend == "B"

\* the string table ["A", "b"] of every batch of the model
StringTable == <<1, 65, 1, 98>>

Header(rendererId, rootId) == <<rendererId, rootId, Len(StringTable)>> \o StringTable

AddRootOp(id) == <<TREE_OPERATION_ADD, id, ELEMENT_TYPE_ROOT, 0, 1, 0, 0>>

AddOp(id, parentId, nameId) == <<TREE_OPERATION_ADD, id, ELEMENT_TYPE_FUNCTION, parentId, 0, nameId, 0>>

AddOpExtended(id, parentId, nameId) == AddOp(id, parentId, nameId) \o <<0>>

RemoveOp(ids) == <<TREE_OPERATION_REMOVE, Len(ids)>> \o ids

ReorderOp(id, children) == <<TREE_OPERATION_REORDER_CHILDREN, id, Len(children)>> \o children

SuspenseOp == <<TREE_OPERATION_APPLIED_ACTIVITY_SLICE_CHANGE, 1>>

IgnoredOps == {<<TREE_OPERATION_UPDATE_TREE_BASE_DURATION, 1, 5>>,
               <<TREE_OPERATION_UPDATE_ERRORS_OR_WARNINGS, 1, 0, 1>>,
               <<TREE_OPERATION_REMOVE_ROOT>>,
               <<TREE_OPERATION_SET_SUBTREE_MODE, 1, 1>>}

\* the ADD of a backend: the new backend writes the 8-value shape
AddOf(ws, id, parentId, nameId) ==
    IF ws = NewBackend THEN AddOpExtended(id, parentId, nameId) ELSE AddOp(id, parentId, nameId)

\* a batch of two operations: component 2 is mounted under node 1 and the
\* children of node 1 are put in order
AddAndReorder(ws) == AddOf(ws, 2, 1, 1) \o ReorderOp(1, <<2>>)

\* the sequences without repetition over a set, up to a length
RECURSIVE Arrangements(_, _)
Arrangements(S, n) ==
    IF n = 0 THEN {<<>>}
    ELSE {<<>>} \cup UNION {{<<x>> \o rest : rest \in Arrangements(S \ {x}, n - 1)} : x \in S}

\* the orders of all the elements of a set
Orders(S) == {p \in Arrangements(S, Cardinality(S)) : Len(p) = Cardinality(S)}

Range(seq) == {seq[k] : k \in 1..Len(seq)}

\* the nodes a set of nodes reaches along the child lists in one more step
ChildrenOf(N, S) == {c \in DOMAIN N : \E q \in S \cap DOMAIN N : Includes(N[q].children, c)}

RECURSIVE Closure(_, _, _)
Closure(N, S, fuel) ==
    IF fuel = 0 THEN S ELSE Closure(N, S \cup ChildrenOf(N, S), fuel - 1)

\* no child list grows past the bound
WithinBounds(T) == \A id \in DOMAIN T.nodes : Len(T.nodes[id].children) <= MaxChildren

----------------------------------------------------------------------------
(* DevToolsBridge: connections and operations, devtools-bridge.ts:41-201 *)

NoResponse == [type |-> "none"]

\* ProfilingSession.stoppedAt = null
NullTime == 0 - 1

\* no message was sent to any peer
NoneSent == [ws \in Peers |-> <<>>]

\* the payload undefined of a message
NoPayload == [id |-> Undefined, rendererID |-> Undefined, requestID |-> Undefined]

\* Profiler.session = null
NoSession == [exists |-> FALSE, name |-> [given |-> FALSE, text |-> "", stamp |-> 0],
              startedAt |-> 0, stoppedAt |-> NullTime, commits |-> <<>>]

\* a state directory without daemon.json and without daemon.sock; a file is
\* written as the pid of the process that made it
NoFile == 0
NoFiles == [json |-> NoFile, sock |-> NoFile]

Init ==
    /\ nodes = EmptyMap
    /\ roots = <<>>
    /\ nameIndex = EmptyMap
    /\ extendedAddFormat = FALSE
    /\ labelToId = EmptyMap
    /\ idToLabel = EmptyMap
    /\ connections = {}
    /\ closing = {}
    /\ connectionRoots = EmptyMap
    /\ rendererIds = {}
    /\ pendingInspections = EmptyMap
    /\ requests = <<>>
    /\ now = 0
    /\ response = NoResponse
    /\ session = NoSession
    /\ displayNames = EmptyMap
    /\ stopsPending = <<>>
    /\ files = NoFiles
    /\ procs = EmptyMap
    /\ ipcBuffer = <<>>
    /\ ipcOut = <<>>
    /\ sent = NoneSent
    /\ recentEvents = <<>>
    /\ hasEverConnected = FALSE
    /\ lastDisconnectAt = NullTime
    /\ waiters = <<>>

\* wss.on('connection')
onConnection(ws) ==
    /\ ws \notin connections
    /\ connections' = connections \cup {ws}
    /\ closing' = closing \ {ws}
    /\ response' = NoResponse
    /\ sent' = NoneSent
    /\ UNCHANGED <<treeVars, labelVars, connectionRoots, rendererIds, inspectVars,
                   profilerVars, daemonVars, ipcVars>>

\* the connection handler of the bridge, which keeps no health ring and
\* signals no waiter
Connect(ws) == onConnection(ws) /\ UNCHANGED eventVars

\* ws.on('message') with event 'operations': handleOperations, whose call of
\* applyOperations may throw into the catch of the message handler
onOperations(ws, ops) ==
    /\ ws \in connections
    /\ IF Len(ops) >= 2
       THEN /\ rendererIds' = rendererIds \cup {At(ops, 0)}
            /\ connectionRoots' = MapSet(connectionRoots, ws,
                   LET rs == IF ws \in DOMAIN connectionRoots THEN connectionRoots[ws] ELSE <<>>
                   IN IF Includes(rs, At(ops, 1)) THEN rs ELSE Append(rs, At(ops, 1)))
       ELSE UNCHANGED <<rendererIds, connectionRoots>>
    /\ LET T == applyOperations(Tree, ops)
       IN /\ WithinBounds(T)
          /\ nodes' = T.nodes
          /\ roots' = T.roots
          /\ nameIndex' = T.nameIndex
          /\ extendedAddFormat' = T.ext
    /\ response' = NoResponse
    /\ sent' = NoneSent
    /\ UNCHANGED <<labelVars, connections, closing, inspectVars,
                   profilerVars, daemonVars, ipcVars>>

\* handleOperations of the bridge
handleOperations(ws, ops) == onOperations(ws, ops) /\ UNCHANGED eventVars

\* the loop of cleanupConnection over the connection's roots, in the order
\* in which the Set received them
RECURSIVE removeRoots(_, _)
removeRoots(T, rs) ==
    IF rs = <<>> THEN T ELSE removeRoots(removeNode(T, Head(rs), 0), Tail(rs))

\* ws.on('close') / ws.on('error'); a walk that overflows the stack leaves
\* the handler before connectionRoots.delete
onClose(ws) ==
    /\ ws \in connections
    /\ connections' = connections \ {ws}
    /\ closing' = closing \ {ws}
    /\ IF ws \in DOMAIN connectionRoots
       THEN LET T == removeRoots(Tree, connectionRoots[ws])
            IN /\ nodes' = T.nodes
               /\ roots' = T.roots
               /\ nameIndex' = T.nameIndex
               /\ connectionRoots' = IF T.threw THEN connectionRoots
                                     ELSE MapDelete(connectionRoots, ws)
       ELSE UNCHANGED <<nodes, roots, nameIndex, connectionRoots>>
    /\ response' = NoResponse
    /\ sent' = NoneSent
    /\ UNCHANGED <<extendedAddFormat, labelVars, rendererIds, inspectVars,
                   profilerVars, daemonVars, ipcVars>>

\* cleanupConnection of the bridge
cleanupConnection(ws) == onClose(ws) /\ UNCHANGED eventVars

----------------------------------------------------------------------------
(* Spec: two peers whose fiber ids overlap, each sending well-formed batches *)

MaxId == 2
Ids == 1..MaxId

\* the root above a node: the end of its parentId chain
RECURSIVE rootOf(_, _, _)
rootOf(N, id, fuel) ==
    IF fuel = 0 \/ id \notin DOMAIN N \/ N[id].parentId = Null \/ N[id].parentId \notin DOMAIN N
    THEN id
    ELSE rootOf(N, N[id].parentId, fuel - 1)

RootOf(id) == rootOf(nodes, id, Cardinality(DOMAIN nodes))

\* the nodes under the roots recorded for a connection
Own(ws) ==
    LET rs == IF ws \in DOMAIN connectionRoots
              THEN {connectionRoots[ws][k] : k \in 1..Len(connectionRoots[ws])} ELSE {}
    IN UNION {Closure(nodes, {r} \cap DOMAIN nodes, Cardinality(DOMAIN nodes)) : r \in rs}

\* The peers are runtimes whose fiber ids overlap (each numbers its fibers
\* from 1).  Every batch is well formed for the runtime that sends it: its
\* header names the root of the tree it changes; an ADD names an id that is
\* not under the sender's roots and a parent that is; a REMOVE names a node
\* under the sender's roots; a REORDER an order of the children of such a
\* node.  What a peer cannot know is which ids the other peer has put into
\* the tree, so its ADD may name an id that is live.  The new backend writes
\* its ADDs in the 8-value shape and is the only one to send an opcode of
\* 8..13, in a batch for one of its trees.
AnyBatches(ws) ==
       {Header(1, id) \o AddRootOp(id) : id \in Ids \ Own(ws)}
  \cup UNION {{Header(1, RootOf(parentId)) \o AddOf(ws, id, parentId, 1) : parentId \in Own(ws)} :
                 id \in Ids \ Own(ws)}
  \cup {Header(1, RootOf(id)) \o RemoveOp(<<id>>) : id \in Own(ws)}
  \cup UNION {{Header(1, RootOf(id)) \o ReorderOp(id, cs) : cs \in Orders(Range(nodes[id].children))} :
                 id \in Own(ws)}
  \cup {Header(1, RootOf(1)) \o AddAndReorder(ws) : id \in {x \in {1} : 1 \in Own(ws) /\ 2 \notin Own(ws)}}
  \cup {Header(1, RootOf(id)) \o SuspenseOp : id \in {x \in Own(ws) : ws = NewBackend}}

SendOperations ==
    \E ws \in connections : \E ops \in AnyBatches(ws) : handleOperations(ws, ops)

Next ==
    \/ \E ws \in Peers : Connect(ws)
    \/ SendOperations
    \/ \E ws \in Peers : cleanupConnection(ws)

Spec == Init /\ [][Next]_vars

----------------------------------------------------------------------------
(* get-tree: daemon.ts:136-140 *)

\* the depth arguments of the get-tree commands of the model
Depths == {NoLimit, 1}

\* the 'get-tree' command: getTree rebuilds the label maps and the answer
\* carries the entries; a walk that overflows the stack is answered with the
\* error of the catch of handleCommand
GetTree(maxDepth) ==
    LET r == getTree(nodes, roots, maxDepth)
    IN /\ labelToId' = r.labelToId
       /\ idToLabel' = r.idToLabel
       /\ response' = IF r.threw THEN [type |-> "error"]
                      ELSE [type |-> "tree", maxDepth |-> maxDepth, data |-> r.result]
       /\ sent' = NoneSent
       /\ UNCHANGED <<treeVars, connections, closing, connectionRoots, rendererIds, inspectVars,
                   profilerVars, daemonVars, ipcVars, eventVars>>

----------------------------------------------------------------------------
(* SpecValid: a peer that sends valid batches *)

MaxNodes == 3
NodeIds == 1..MaxNodes

\* the ADD in the shape that the decoder reads
AddValid(id, parentId, nameId) ==
    IF extendedAddFormat THEN AddOpExtended(id, parentId, nameId) ELSE AddOp(id, parentId, nameId)

\* A batch is valid when its header names the root of the tree it changes,
\* its ADD names an id that is not live and, as parent, a live node of the
\* sender, its REMOVE names a live node of the sender, its REORDER an order
\* of the children of such a node, and its ADD is written in the shape that
\* the decoder reads.  The opcodes that the decoder skips may precede the
\* mount of a root.
ValidBatches(ws) ==
       {Header(1, id) \o AddRootOp(id) : id \in NodeIds \ DOMAIN nodes}
  \cup UNION {{Header(1, id) \o ig \o AddRootOp(id) : ig \in IgnoredOps} : id \in NodeIds \ DOMAIN nodes}
  \cup UNION {{Header(1, RootOf(parentId)) \o AddValid(id, parentId, 1) : parentId \in Own(ws)} :
                 id \in NodeIds \ DOMAIN nodes}
  \cup {Header(1, RootOf(id)) \o RemoveOp(<<id>>) : id \in Own(ws)}
  \cup UNION {{Header(1, RootOf(id)) \o ReorderOp(id, cs) : cs \in Orders(Range(nodes[id].children))} :
                 id \in Own(ws)}
  \cup {Header(1, RootOf(id)) \o SuspenseOp : id \in {x \in Own(ws) : ws = NewBackend}}

SendValid ==
    \E ws \in connections : \E ops \in ValidBatches(ws) : handleOperations(ws, ops)

\* one runtime, which connects, sends its batches, and disconnects
NextValid ==
    \/ Connect(NewBackend)
    \/ SendValid
    \/ cleanupConnection(NewBackend)
    \/ \E maxDepth \in Depths : GetTree(maxDepth)

SpecValid == Init /\ [][NextValid]_vars

----------------------------------------------------------------------------
(* Element inspection: devtools-bridge.ts:93-116 and 203-252 *)

\* the delay of the setTimeout of inspectElement, in milliseconds
INSPECT_TIMEOUT == 5000

\* the clock advances in steps of half the timeout, up to MaxTicks steps
MaxTicks == 3
ClockStep == INSPECT_TIMEOUT \div 2
MaxTime == MaxTicks * ClockStep

\* the number of inspectElement calls in a behaviour
MaxRequests == 2

\* requests[r] is the promise of the r-th inspectElement call with the timer
\* it created: timer is "none" (no setTimeout), "live", "cleared" or "fired"
\* and deadline the time for which it was set; calls counts the calls of its
\* resolve; value is what the first call gave; overlapped tells that another
\* inspection of the same id was unresolved during this one.
\* A PendingInspection {resolve, timer} is the index r of its request.
Pending == [kind |-> "pending"]
ResolvedNull == [kind |-> "null"]

resolve(reqs, r, v) ==
    IF reqs[r].calls = 0
    THEN [reqs EXCEPT ![r].calls = 1, ![r].value = v]
    ELSE [reqs EXCEPT ![r].calls = @ + 1]

\* the requests for an id that have not resolved
Unresolved(id) == {r \in 1..Len(requests) : requests[r].id = id /\ requests[r].calls = 0}

\* ws.readyState === WebSocket.OPEN
isOpen(ws) == ws \in connections /\ ws \notin closing

\* sendToAll: one message to every connection that is open
sendToAll(msg) == [ws \in Peers |-> IF isOpen(ws) THEN <<msg>> ELSE <<>>]

\* an inspectElement that does not look the node up
inspectElementNoLookup(id) ==
    /\ Len(requests) < MaxRequests
    /\ now + INSPECT_TIMEOUT <= MaxTime
    /\ requests' = Append(
           [r \in 1..Len(requests) |->
               IF r \in Unresolved(id) THEN [requests[r] EXCEPT !.overlapped = TRUE]
               ELSE requests[r]],
           [id |-> id, deadline |-> now + INSPECT_TIMEOUT, timer |-> "live", calls |-> 0,
            value |-> Pending, overlapped |-> Unresolved(id) # {}])
    /\ pendingInspections' = MapSet(pendingInspections, id, Len(requests) + 1)
    /\ sent' = sendToAll([event |-> "inspectElement",
                           payload |-> [id |-> id,
                                        rendererID |-> IF id \in DOMAIN nodes
                                                       THEN nodes[id].rendererId ELSE Undefined,
                                        requestID |-> id]])
    /\ response' = NoResponse
    /\ UNCHANGED <<treeVars, labelVars, connections, closing, connectionRoots, rendererIds, now,
                   profilerVars, daemonVars, ipcVars, eventVars>>

\* bridge.inspectElement(id), as the 'get-component' command calls it with a
\* numeric id
inspectElement(id) ==
    /\ Len(requests) < MaxRequests
    /\ now + INSPECT_TIMEOUT <= MaxTime
    /\ IF id \notin DOMAIN nodes
       THEN /\ requests' = Append(requests,
                   [id |-> id, deadline |-> now, timer |-> "none", calls |-> 1,
                    value |-> ResolvedNull, overlapped |-> FALSE])
            /\ UNCHANGED pendingInspections
            /\ sent' = NoneSent
       ELSE /\ requests' = Append(
                   [r \in 1..Len(requests) |->
                       IF r \in Unresolved(id) THEN [requests[r] EXCEPT !.overlapped = TRUE]
                       ELSE requests[r]],
                   [id |-> id, deadline |-> now + INSPECT_TIMEOUT, timer |-> "live", calls |-> 0,
                    value |-> Pending, overlapped |-> Unresolved(id) # {}])
            /\ pendingInspections' = MapSet(pendingInspections, id, Len(requests) + 1)
            /\ sent' = sendToAll([event |-> "inspectElement",
                                   payload |-> [id |-> id, rendererID |-> nodes[id].rendererId,
                                                requestID |-> id]])
    /\ response' = NoResponse
    /\ UNCHANGED <<treeVars, labelVars, connections, closing, connectionRoots, rendererIds, now,
                   profilerVars, daemonVars, ipcVars, eventVars>>

\* the callback of the setTimeout of request r
onTimeout(r) ==
    /\ r \in 1..Len(requests)
    /\ requests[r].timer = "live"
    /\ requests[r].deadline <= now
    /\ pendingInspections' = MapDelete(pendingInspections, requests[r].id)
    /\ requests' = resolve([requests EXCEPT ![r].timer = "fired"], r, ResolvedNull)
    /\ response' = NoResponse
    /\ sent' = NoneSent
    /\ UNCHANGED <<treeVars, labelVars, connections, closing, connectionRoots, rendererIds, now,
                   profilerVars, daemonVars, ipcVars, eventVars>>

\* the payloads of the 'inspectedElement' messages of the model: value is
\* NoValue when the payload carries none
NoValue == "undefined"
PayloadTypes == {"full-data", "hydrated-path", "not-found"}
PayloadValues == {NoValue, "p"}

\* the InspectedElement built from a payload: the fields of data.value are
\* carried as one value
inspected(data) ==
    [kind |-> "element",
     data |-> [id |-> data.id, value |-> data.value,
               type |-> IF data.id \in DOMAIN nodes THEN nodes[data.id].type ELSE "other"]]

\* a handler that resolves without clearTimeout
handleInspectedElementNoClear(ws, data) ==
    /\ ws \in connections
    /\ IF data.type # "full-data" /\ data.type # "hydrated-path"
       THEN IF data.id \in DOMAIN pendingInspections
            THEN LET r == pendingInspections[data.id]
                 IN /\ pendingInspections' = MapDelete(pendingInspections, data.id)
                    /\ requests' = resolve(requests, r, ResolvedNull)
            ELSE UNCHANGED <<pendingInspections, requests>>
       ELSE IF data.id \notin DOMAIN pendingInspections \/ data.value = NoValue
            THEN UNCHANGED <<pendingInspections, requests>>
            ELSE LET r == pendingInspections[data.id]
                 IN /\ pendingInspections' = MapDelete(pendingInspections, data.id)
                    /\ requests' = resolve(requests, r, inspected(data))
    /\ response' = NoResponse
    /\ sent' = NoneSent
    /\ UNCHANGED <<treeVars, labelVars, connections, closing, connectionRoots, rendererIds, now,
                   profilerVars, daemonVars, ipcVars, eventVars>>

\* a handler that empties pendingInspections instead of deleting one entry
handleInspectedElementClearAll(ws, data) ==
    /\ ws \in connections
    /\ IF data.type # "full-data" /\ data.type # "hydrated-path"
       THEN IF data.id \in DOMAIN pendingInspections
            THEN LET r == pendingInspections[data.id]
                 IN /\ pendingInspections' = EmptyMap
                    /\ requests' = resolve([requests EXCEPT ![r].timer = "cleared"], r, ResolvedNull)
            ELSE UNCHANGED <<pendingInspections, requests>>
       ELSE IF data.id \notin DOMAIN pendingInspections \/ data.value = NoValue
            THEN UNCHANGED <<pendingInspections, requests>>
            ELSE LET r == pendingInspections[data.id]
                 IN /\ pendingInspections' = EmptyMap
                    /\ requests' = resolve([requests EXCEPT ![r].timer = "cleared"], r, inspected(data))
    /\ response' = NoResponse
    /\ sent' = NoneSent
    /\ UNCHANGED <<treeVars, labelVars, connections, closing, connectionRoots, rendererIds, now,
                   profilerVars, daemonVars, ipcVars, eventVars>>

\* ws.on('message') with event 'inspectedElement'
handleInspectedElement(ws, data) ==
    /\ ws \in connections
    /\ IF data.type # "full-data" /\ data.type # "hydrated-path"
       THEN IF data.id \in DOMAIN pendingInspections
            THEN LET r == pendingInspections[data.id]
                 IN /\ pendingInspections' = MapDelete(pendingInspections, data.id)
                    /\ requests' = resolve([requests EXCEPT ![r].timer = "cleared"], r, ResolvedNull)
            ELSE UNCHANGED <<pendingInspections, requests>>
       ELSE IF data.id \notin DOMAIN pendingInspections \/ data.value = NoValue
            THEN UNCHANGED <<pendingInspections, requests>>
            ELSE LET r == pendingInspections[data.id]
                 IN /\ pendingInspections' = MapDelete(pendingInspections, data.id)
                    /\ requests' = resolve([requests EXCEPT ![r].timer = "cleared"], r, inspected(data))
    /\ response' = NoResponse
    /\ sent' = NoneSent
    /\ UNCHANGED <<treeVars, labelVars, connections, closing, connectionRoots, rendererIds, now,
                   profilerVars, daemonVars, ipcVars, eventVars>>

\* time passes; a timer that is due fires before the clock moves on
Tick ==
    /\ now + ClockStep <= MaxTime
    /\ \A r \in 1..Len(requests) : requests[r].timer = "live" => now < requests[r].deadline
    /\ now' = now + ClockStep
    /\ response' = NoResponse
    /\ sent' = NoneSent
    /\ UNCHANGED <<treeVars, labelVars, connections, closing, connectionRoots, rendererIds,
                   pendingInspections, requests,
                   profilerVars, daemonVars, ipcVars, eventVars>>

\* the answer of the 'get-component' command for a resolved request:
\* daemon.ts:142-154
getComponent(req) ==
    IF req.value.kind = "null"
    THEN [ok |-> FALSE, error |-> <<"Component", req.id, "not found">>]
    ELSE [ok |-> TRUE, data |-> req.value.data]

----------------------------------------------------------------------------
(* SpecInspect: two peers, their mounts, and the inspections *)

\* the batches of SpecInspect: a runtime that has no root 1 mounts its root 1
\* with component 2 under it, or its root 1 alone
Mount == AddRootOp(1) \o AddOp(2, 1, 1)
InspectBatches(ws) == {Header(1, 1) \o ops : ops \in {m \in {Mount, AddRootOp(1)} : 1 \notin Own(ws)}}

SendMount ==
    \E ws \in connections : \E ops \in InspectBatches(ws) : handleOperations(ws, ops)

NextInspect ==
    \/ \E ws \in Peers : Connect(ws)
    \/ SendMount
    \/ \E ws \in Peers : cleanupConnection(ws)
    \/ \E id \in Ids : inspectElement(id)
    \/ \E ws \in Peers, type \in PayloadTypes, id \in Ids, value \in PayloadValues :
           handleInspectedElement(ws, [type |-> type, id |-> id, value |-> value])
    \/ \E r \in 1..MaxRequests : onTimeout(r)
    \/ Tick

SpecInspect == Init /\ [][NextInspect]_vars

----------------------------------------------------------------------------
(* The answers of the daemon that the properties read: daemon.ts:123-140 *)

statusInfo == [connectedApps |-> Cardinality(connections),
               componentCount |-> Cardinality(DOMAIN nodes)]

----------------------------------------------------------------------------
(* Vocabulary of the properties *)

\* the live nodes of the subtree of id: id and its descendants by child lists
SubtreeOf(N, id) == Closure(N, {id} \cap DOMAIN N, Cardinality(DOMAIN N))

\* the root ids recorded for a connection
RootsOf(ws) == IF ws \in DOMAIN connectionRoots THEN Range(connectionRoots[ws]) ELSE {}

Count(seq, x) == Cardinality({k \in 1..Len(seq) : seq[k] = x})

\* C1: closing a connection removes exactly the roots recorded for it and
\* their subtrees: every node under a root of another peer that is still
\* connected is unchanged, the connection's record is discarded and
\* connectedApps drops by one.
C1_DisconnectRemovesOnlyOwnRoots ==
    [][\A ws \in Peers : cleanupConnection(ws) =>
          LET gone == UNION {SubtreeOf(nodes, r) : r \in RootsOf(ws)}
          IN /\ DOMAIN nodes' = DOMAIN nodes \ gone
             /\ \A other \in connections' : \A r \in RootsOf(other) :
                    \A n \in SubtreeOf(nodes, r) : n \in DOMAIN nodes' /\ nodes'[n] = nodes[n]
             /\ ws \notin DOMAIN connectionRoots'
             /\ Cardinality(connections') = Cardinality(connections) - 1]_vars

\* C2: once every peer has disconnected, nothing that the peers added is left:
\* status reports connectedApps = 0 and componentCount = 0 and get-tree
\* returns the empty list.
C2_EmptyAfterAllDisconnect ==
    connections = {} =>
        /\ statusInfo.connectedApps = 0
        /\ statusInfo.componentCount = 0
        /\ getTree(nodes, roots, NoLimit).result = <<>>

\* C3: the tree is structurally consistent: a node's parent is live and lists
\* it exactly once; every listed child is live and names that parent; every
\* root is live, has a null parentId and occurs once in roots; every node with
\* a null parentId is a root.
C3_TreeConsistent ==
    /\ \A n \in DOMAIN nodes : nodes[n].parentId # Null =>
           /\ nodes[n].parentId \in DOMAIN nodes
           /\ Count(nodes[nodes[n].parentId].children, n) = 1
    /\ \A q \in DOMAIN nodes : \A c \in Range(nodes[q].children) :
           c \in DOMAIN nodes /\ nodes[c].parentId = q
    /\ \A r \in Range(roots) :
           r \in DOMAIN nodes /\ nodes[r].parentId = Null /\ Count(roots, r) = 1
    /\ \A n \in DOMAIN nodes : nodes[n].parentId = Null => Includes(roots, n)

\* every id of the name index is a live node
NameIndexLive == \A name \in DOMAIN nameIndex : nameIndex[name] \subseteq DOMAIN nodes

\* C5: REMOVE of x deletes x and every descendant of x and nothing else; x
\* leaves its parent's child list and the roots; the node count drops by the
\* size of the subtree; REMOVE of an unknown id changes nothing; and no
\* name-index entry ever refers to an id that is not live.
C5_RemoveCascades ==
    [][/\ \A ws \in Peers, x \in Ids :
            handleOperations(ws, Header(1, RootOf(x)) \o RemoveOp(<<x>>)) =>
               /\ DOMAIN nodes' = DOMAIN nodes \ SubtreeOf(nodes, x)
               /\ Cardinality(DOMAIN nodes') =
                      Cardinality(DOMAIN nodes) - Cardinality(SubtreeOf(nodes, x))
               /\ \A q \in DOMAIN nodes' : ~Includes(nodes'[q].children, x)
               /\ ~Includes(roots', x)
               /\ x \notin DOMAIN nodes => UNCHANGED treeVars
       /\ NameIndexLive']_vars

\* the peer whose backend never emits an opcode of 8..13
OldBackend == CHOOSE ws \in Peers : ws # NewBackend

\* C10: the extended-ADD latch is per connection: every batch of the peer that
\* never sent an opcode of 8..13 is decoded with its ADDs in the 7-value
\* shape, whatever the other peer has sent.
C10_LatchPerConnection ==
    [][\A ops \in AnyBatches(OldBackend) :
          handleOperations(OldBackend, ops) =>
              LET T == applyOperations([Tree EXCEPT !.ext = FALSE], ops)
              IN nodes' = T.nodes /\ roots' = T.roots /\ nameIndex' = T.nameIndex]_vars

\* the position of a live node in the answer of get-tree
Pos(data, id) == CHOOSE k \in 1..Len(data) : data[k].id = id

\* the number of ancestors of a node
RECURSIVE depthOf(_, _, _)
depthOf(N, id, fuel) ==
    IF fuel = 0 \/ N[id].parentId = Null \/ N[id].parentId \notin DOMAIN N THEN 0
    ELSE 1 + depthOf(N, N[id].parentId, fuel - 1)

\* C4: after valid batches, get-tree without a depth limit emits every live
\* node exactly once, every node is under exactly one root, the order is the
\* depth-first pre-order over the roots (a node is directly followed by the
\* whole of its subtree, siblings and roots come in list order), and the
\* labels are @c1..@cK in emission order with K the number of live nodes.
C4_GetTreePreOrder ==
    (response.type = "tree" /\ response.maxDepth = NoLimit) =>
        LET data == response.data
            K == Cardinality(DOMAIN nodes)
        IN /\ Len(data) = K
           /\ {data[k].id : k \in 1..K} = DOMAIN nodes
           /\ \A k \in 1..K : data[k].label = k
           /\ \A k \in 1..K : labelToId[k] = data[k].id /\ idToLabel[data[k].id] = k
           /\ \A n \in DOMAIN nodes :
                  Cardinality({k \in 1..Len(roots) : n \in SubtreeOf(nodes, roots[k])}) = 1
           /\ \A n \in DOMAIN nodes :
                  /\ {Pos(data, m) : m \in SubtreeOf(nodes, n)} =
                         Pos(data, n)..(Pos(data, n) + Cardinality(SubtreeOf(nodes, n)) - 1)
                  /\ data[Pos(data, n)].depth = depthOf(nodes, n, K)
                  /\ \A i, j \in 1..Len(nodes[n].children) :
                         i < j => Pos(data, nodes[n].children[i]) < Pos(data, nodes[n].children[j])
           /\ \A i, j \in 1..Len(roots) : i < j => Pos(data, roots[i]) < Pos(data, roots[j])

\* get-tree has answered for a root whose two children were put in an order
\* that is not the order of their ids
C4_Witness ==
    /\ response.type = "tree" /\ response.maxDepth = NoLimit
    /\ Len(response.data) = 3
    /\ response.data[2].depth = 1 /\ response.data[3].depth = 1
    /\ response.data[2].id > response.data[3].id

\* request r is the PendingInspection of its id
IsPending(r) ==
    requests[r].id \in DOMAIN pendingInspections /\ pendingInspections[requests[r].id] = r

\* what holds of every request in every state
RequestsSettle ==
    \A r \in 1..Len(requests) :
        /\ requests[r].calls <= 1
        /\ requests[r].calls = 0 => requests[r].timer = "live" /\ now <= requests[r].deadline
        /\ requests[r].calls = 1 => requests[r].timer # "live" /\ ~IsPending(r)
        /\ requests[r].timer = "fired" =>
               /\ requests[r].value = ResolvedNull
               /\ getComponent(requests[r]) =
                      [ok |-> FALSE, error |-> <<"Component", requests[r].id, "not found">>]

\* C6: every inspect(id) for an id present in the tree gets a deadline 5 s
\* after it is issued and resolves exactly once, not after that deadline; the
\* request that its timer resolves gets null, which get-component answers
\* with ok:false 'Component <id> not found'; and a resolved request has no
\* PendingInspection and no live timer.
C6_ResolvesOnceWithinTimeout ==
    [][/\ RequestsSettle'
       /\ \A id \in Ids : (inspectElement(id) /\ id \in DOMAIN nodes) =>
              requests'[Len(requests')].deadline = now + INSPECT_TIMEOUT
       /\ \A r \in 1..Len(requests) :
              (requests[r].calls = 0 /\ requests'[r].calls > 0) => now' <= requests[r].deadline]_vars

\* a request has been resolved null by its timer at its deadline and nothing
\* is pending for its id
C6_Witness ==
    \E r \in 1..Len(requests) :
        /\ requests[r].timer = "fired" /\ requests[r].calls = 1
        /\ requests[r].value = ResolvedNull
        /\ now = requests[r].deadline
        /\ requests[r].id \notin DOMAIN pendingInspections

\* the newest request for an id
Newest(id) ==
    LET rs == {r \in 1..Len(requests) : requests[r].id = id}
    IN CHOOSE r \in rs : \A q \in rs : q <= r

\* C7: an inspect(id) issued while an inspection of the same id is pending
\* replaces the pending entry and gets its own 5 s deadline; the timer of
\* another request neither removes nor resolves the entry of a request whose
\* own deadline is still ahead; a full-data response that arrives while the
\* new request is unresolved resolves it with the element.
C7_DuplicateReplacesPending ==
    [][/\ \A id \in Ids : (inspectElement(id) /\ id \in DOMAIN nodes) =>
              /\ pendingInspections'[id] = Len(requests')
              /\ requests'[Len(requests')].deadline = now + INSPECT_TIMEOUT
       /\ \A r \in 1..Len(requests) : onTimeout(r) =>
              \A id \in DOMAIN pendingInspections :
                  (pendingInspections[id] # r /\ now < requests[pendingInspections[id]].deadline) =>
                  /\ id \in DOMAIN pendingInspections'
                  /\ pendingInspections'[id] = pendingInspections[id]
                  /\ requests'[pendingInspections[id]] = requests[pendingInspections[id]]
       /\ \A ws \in Peers, id \in Ids, value \in PayloadValues \ {NoValue} :
              (/\ handleInspectedElement(ws, [type |-> "full-data", id |-> id, value |-> value])
               /\ \E r \in 1..Len(requests) : requests[r].id = id
               /\ requests[Newest(id)].calls = 0) =>
                  requests'[Newest(id)].value.kind = "element"]_vars

\* C8: an inspectedElement response for id a leaves the pending inspection
\* and the requests of every other id alone, and a request of a that was not
\* overlapped by another inspection of a and is unresolved when the full-data
\* response arrives is resolved with the element of that response.
C8_ResponsesMatchRequests ==
    [][\A ws \in Peers, type \in PayloadTypes, a \in Ids, value \in PayloadValues :
          handleInspectedElement(ws, [type |-> type, id |-> a, value |-> value]) =>
              /\ \A b \in Ids \ {a} :
                     /\ (b \in DOMAIN pendingInspections') = (b \in DOMAIN pendingInspections)
                     /\ b \in DOMAIN pendingInspections =>
                            pendingInspections'[b] = pendingInspections[b]
              /\ \A r \in 1..Len(requests) : requests[r].id # a => requests'[r] = requests[r]
              /\ \A r \in 1..Len(requests) :
                     (/\ requests[r].id = a /\ requests[r].calls = 0 /\ ~requests[r].overlapped
                      /\ type = "full-data" /\ value # NoValue) =>
                         /\ requests'[r].calls = 1
                         /\ requests'[r].value.kind = "element"
                         /\ requests'[r].value.data.id = a
                         /\ requests'[r].value.data.value = value]_vars

\* of two inspections of distinct ids the one issued later has been resolved
\* with its element while the one issued earlier is still pending
C8_Witness ==
    /\ Len(requests) >= 2
    /\ requests[1].id # requests[2].id
    /\ requests[2].value.kind = "element" /\ requests[2].value.data.id = requests[2].id
    /\ requests[1].calls = 0 /\ IsPending(1)

\* C9: with no peer connected inspect(id) resolves null at once for every id
\* and enters no PendingInspection.
C9_NoPeerResolvesNull ==
    [][\A id \in Ids : (inspectElement(id) /\ connections = {}) =>
          /\ requests'[Len(requests')].calls = 1
          /\ requests'[Len(requests')].value = ResolvedNull
          /\ pendingInspections' = pendingInspections]_vars

----------------------------------------------------------------------------
(* SpecDecode: a peer whose batches the decoder does not know or cannot read *)

\* an opcode that the switch of applyOperations has no case for
UnknownOp == TREE_OPERATION_APPLIED_ACTIVITY_SLICE_CHANGE + 1

\* the operand that follows the unknown opcode in a batch: an id
UnknownOperands == {TREE_OPERATION_REMOVE, TREE_OPERATION_APPLIED_ACTIVITY_SLICE_CHANGE}

\* a batch with an unknown opcode and its operand before a mount or an ADD
UnknownBatches(ws) ==
    {Header(1, 1) \o <<UnknownOp, x>> \o ops :
        x \in UnknownOperands, ops \in {AddRootOp(1), AddOp(2, 1, 1)}}

\* the declared size of the string table reaches past the end of the array
Overruns(ops) == Len(ops) >= 3 /\ 3 + ops[3] > Len(ops)

\* batches for root 2 whose string table is declared longer than what follows
OverrunBatches ==
    {b \in {<<1, 2, Len(StringTable) + extra>> \o StringTable \o ops :
               extra \in 1..8, ops \in {<<>>, <<0, 0>>, AddRootOp(1), AddOp(2, 1, 1)}} :
        Overruns(b)}

\* the batches of a runtime that mounts root 1 and component 2 under it
PlainBatches(ws) ==
       {Header(1, 1) \o AddRootOp(1) : id \in {1} \ DOMAIN nodes}
  \cup {Header(1, 1) \o AddOf(ws, 2, 1, 1) : id \in {x \in {2} \ DOMAIN nodes : 1 \in Own(ws)}}
  \cup {Header(1, 1) \o AddAndReorder(ws) : id \in {x \in {2} \ DOMAIN nodes : 1 \in Own(ws)}}
  \cup {Header(1, 1) \o RemoveOp(<<id>>) : id \in Own(ws)}

SendPlain ==
    \E ops \in PlainBatches(OldBackend) : handleOperations(OldBackend, ops)

SendUnknown ==
    \E ops \in UnknownBatches(OldBackend) : handleOperations(OldBackend, ops)

SendOverrun ==
    \E ops \in OverrunBatches : handleOperations(OldBackend, ops)

NextDecode ==
    \/ Connect(OldBackend)
    \/ SendPlain
    \/ SendUnknown
    \/ SendOverrun
    \/ cleanupConnection(OldBackend)

SpecDecode == Init /\ [][NextDecode]_vars

\* the tree after the step
TreeNext == [nodes |-> nodes', roots |-> roots', nameIndex |-> nameIndex',
             ext |-> extendedAddFormat', threw |-> FALSE]

\* the cursor positions of the opcode loop over a batch
RECURSIVE cursorsFrom(_, _, _, _)
cursorsFrom(T, ops, i, table) ==
    IF T.threw \/ ~Lt(i, Len(ops)) THEN <<i>>
    ELSE LET s == step(T, ops, i, table) IN <<i>> \o cursorsFrom(s.T, ops, s.i, table)

cursors(T, ops) ==
    LET st == parseStringTable(ops)
    IN IF Len(ops) < 2 \/ st.threw THEN <<>> ELSE cursorsFrom(T, ops, st.i, st.table)

\* a batch that the runtime sends later: an ADD in its shape, then a REORDER
LaterBatches(ws) == {Header(1, 1) \o AddAndReorder(ws)}

\* C11: an unknown opcode moves the cursor by one integer and changes
\* nothing, and the batch that holds it leaves the decoding of every later
\* batch as it was: the cursor positions, and with them the shape in which
\* the ADDs are read, are those that the later batch has without it.
C11_LaterBatchesIndependent ==
    [][\A ops \in UnknownBatches(OldBackend) :
          handleOperations(OldBackend, ops) =>
              /\ step(Tree, ops, Len(Header(1, 1)), <<>>) = [T |-> Tree, i |-> Len(Header(1, 1)) + 1]
              /\ \A later \in LaterBatches(OldBackend) :
                     cursors(TreeNext, later) = cursors(Tree, later)]_vars

\* C12: a batch whose declared string-table size overruns the array is
\* dropped as a whole: nodes, roots, child lists, name index and the
\* extended-ADD flag are unchanged, the connection stays open, and a batch
\* that follows is applied as it is on the unchanged tree.
C12_OverrunBatchDropped ==
    [][\A ops \in OverrunBatches :
          handleOperations(OldBackend, ops) =>
              /\ UNCHANGED treeVars
              /\ OldBackend \in connections'
              /\ \A later \in PlainBatches(OldBackend) \cup LaterBatches(OldBackend) :
                     applyOperations(TreeNext, later) = applyOperations(Tree, later)]_vars

\* the connection that sent an overrun batch for root 2 has afterwards
\* mounted root 1 and component 2 (connectionRoots keeps the order in which
\* the headers named the roots)
C12_Witness ==
    /\ OldBackend \in connections
    /\ OldBackend \in DOMAIN connectionRoots
    /\ connectionRoots[OldBackend] = <<2, 1>>
    /\ DOMAIN nodes = {1, 2}
    /\ nodes[1].children = <<2>>

----------------------------------------------------------------------------
(* Labels and resolveId: component-tree.ts:371 and 456-469 *)

\* the decimal digits of a number, as code points
RECURSIVE digits(_)
digits(n) == IF n < 10 THEN <<48 + n>> ELSE digits(n \div 10) \o <<48 + (n % 10)>>

\* the template `@c${labelCounter}`: the label that the model writes N
labelOf(n) == <<64, 99>> \o digits(n)

startsWith(str, prefix) == Len(str) >= Len(prefix) /\ SubSeq(str, 1, Len(prefix)) = prefix

\* labelToId.get(label): the key N of the map stands for the string labelOf(N)
resolveLabel(L2I, label) ==
    LET ks == {k \in DOMAIN L2I : labelOf(k) = label}
    IN IF ks = {} THEN Undefined ELSE L2I[CHOOSE k \in ks : TRUE]

\* parseInt(str, 10) on a string without sign and blanks: the number that
\* its leading digits write, NaN (Undefined) without a leading digit
RECURSIVE parseDigits(_, _)
parseDigits(str, acc) ==
    IF str = <<>> \/ Head(str) < 48 \/ Head(str) > 57 THEN acc
    ELSE parseDigits(Tail(str), (IF acc = Undefined THEN 0 ELSE acc * 10) + (Head(str) - 48))

parseInt(str) == parseDigits(str, Undefined)

\* the values of a command field of type number | string
Num(n) == [typeof |-> "number", number |-> n, string |-> <<>>]
Str(str) == [typeof |-> "string", number |-> 0, string |-> str]

resolveId(L2I, id) ==
    IF id.typeof = "number" THEN id.number
    ELSE IF startsWith(id.string, <<64, 99>>) THEN resolveLabel(L2I, id.string)
    ELSE parseInt(id.string)

\* the label strings that the properties ask about: @c1 .. @c4, @c01 and @c
LabelStrings == {labelOf(n) : n \in 1..(MaxNodes + 1)} \cup {<<64, 99, 48, 49>>, <<64, 99>>}

----------------------------------------------------------------------------
(* SpecLabels: two runtimes and the get-tree command *)

\* a runtime that has neither node 1 nor node 2 mounts its root 1 with
\* component 2 under it; a runtime mounts a further root under an id that
\* is not in its trees
LabelBatches(ws) ==
       {Header(1, 1) \o Mount : id \in {x \in {1} : Own(ws) \cap {1, 2} = {}}}
  \cup {Header(1, id) \o AddRootOp(id) : id \in Ids \ Own(ws)}

SendLabelBatch ==
    \E ws \in connections : \E ops \in LabelBatches(ws) : handleOperations(ws, ops)

NextLabels ==
    \/ \E ws \in Peers : Connect(ws)
    \/ SendLabelBatch
    \/ \E ws \in Peers : cleanupConnection(ws)
    \/ \E maxDepth \in Depths : GetTree(maxDepth)

SpecLabels == Init /\ [][NextLabels]_vars

\* C13: after a get-tree, resolveId of a label gives the id of the entry
\* that carries the label and undefined for every label that no entry
\* carries, and the two label maps are inverse to each other over exactly
\* the emitted nodes.
C13_LabelsResolve ==
    response.type = "tree" =>
        LET data == response.data
            emitted == {data[k].id : k \in 1..Len(data)}
        IN /\ \A k \in 1..Len(data) :
                  resolveId(labelToId, Str(labelOf(data[k].label))) = data[k].id
           /\ \A str \in LabelStrings :
                  (\A k \in 1..Len(data) : labelOf(data[k].label) # str) =>
                      resolveId(labelToId, Str(str)) = Undefined
           /\ DOMAIN labelToId = {data[k].label : k \in 1..Len(data)}
           /\ DOMAIN idToLabel = emitted
           /\ \A l \in DOMAIN labelToId : idToLabel[labelToId[l]] = l
           /\ \A id \in DOMAIN idToLabel : labelToId[idToLabel[id]] = id

\* C14: labels are stable within a session: the label that a get-tree
\* response gave to a node names that node in the command handled next on
\* the unchanged tree, also when a get-tree with another depth was handled
\* in between.
C14_LabelsStableInSession ==
    [][\A maxDepth \in Depths :
          (GetTree(maxDepth) /\ response.type = "tree") =>
              \A k \in 1..Len(response.data) :
                  resolveId(labelToId', Str(labelOf(response.data[k].label))) = response.data[k].id]_vars

----------------------------------------------------------------------------
(* The daemon process and its state directory: daemon.ts:39-77 and 240-258, *)
(* and the client that starts it: daemon-client.ts:45-77                    *)

\* the pids of the daemon processes of a behaviour
MaxDaemons == 3
Pids == 1..MaxDaemons

\* the --port arguments: the default port and another one
Ports == {"default", "other"}

\* what the steps of a daemon leave alone
appVars == <<treeVars, labelVars, bridgeVars, inspectVars, response, profilerVars, ipcVars,
             sent, eventVars>>

\* process.kill(pid, 0) succeeds
isDaemonAlive(pid) == pid \in DOMAIN procs /\ procs[pid].pc # "exited"

\* the WebSocket port is held by a process whose bridge has started
PortInUse(port) ==
    \E q \in DOMAIN procs : procs[q].port = port /\ procs[q].pc \in {"ipc", "info", "running"}

\* ensureDaemon(port) of a client: with a daemon.json whose pid is alive it
\* returns; otherwise it unlinks daemon.json and the socket file and spawns
\* the daemon, which gets the pid p
ensureDaemon(p, port) ==
    /\ p \notin DOMAIN procs
    /\ \A q \in Pids : q < p => q \in DOMAIN procs
    /\ ~(files.json # NoFile /\ isDaemonAlive(files.json))
    /\ files' = NoFiles
    /\ procs' = MapSet(procs, p, [pc |-> "start", port |-> port, conns |-> {}, exit |-> "none"])
    /\ UNCHANGED appVars

\* Daemon.start up to the first await: mkdir and the unlink of the socket file
startCleanSocket(p) ==
    /\ p \in DOMAIN procs /\ procs[p].pc = "start"
    /\ files' = [files EXCEPT !.sock = NoFile]
    /\ procs' = [procs EXCEPT ![p].pc = "bridge"]
    /\ UNCHANGED appVars

\* await this.bridge.start(): the listen of the WebSocketServer; its error
\* rejects start() and main exits with status 1
startBridge(p) ==
    /\ p \in DOMAIN procs /\ procs[p].pc = "bridge"
    /\ procs' = IF PortInUse(procs[p].port)
                THEN [procs EXCEPT ![p].pc = "exited", ![p].exit = "1"]
                ELSE [procs EXCEPT ![p].pc = "ipc"]
    /\ UNCHANGED <<files, appVars>>

\* await this.startIpc(socketPath): listen fails when the path exists
startIpc(p) ==
    /\ p \in DOMAIN procs /\ procs[p].pc = "ipc"
    /\ IF files.sock # NoFile
       THEN /\ procs' = [procs EXCEPT ![p].pc = "exited", ![p].exit = "1"]
            /\ UNCHANGED files
       ELSE /\ procs' = [procs EXCEPT ![p].pc = "info"]
            /\ files' = [files EXCEPT !.sock = p]
    /\ UNCHANGED appVars

\* the write of daemon.json and the installation of the signal handlers
writeInfo(p) ==
    /\ p \in DOMAIN procs /\ procs[p].pc = "info"
    /\ files' = [files EXCEPT !.json = p]
    /\ procs' = [procs EXCEPT ![p].pc = "running"]
    /\ UNCHANGED appVars

\* a peer connects to the WebSocket listener of daemon p
accept(p, ws) ==
    /\ p \in DOMAIN procs /\ procs[p].pc \in {"ipc", "info", "running"}
    /\ \A q \in DOMAIN procs : ws \notin procs[q].conns
    /\ procs' = [procs EXCEPT ![p].conns = @ \cup {ws}]
    /\ UNCHANGED <<files, appVars>>

\* a shutdown that leaves daemon.json behind
shutdownKeepInfo(p) ==
    /\ p \in DOMAIN procs /\ procs[p].pc # "exited"
    /\ files' = IF procs[p].pc = "running" THEN [files EXCEPT !.sock = NoFile] ELSE files
    /\ procs' = [procs EXCEPT ![p].pc = "exited", ![p].conns = {},
                              ![p].exit = IF procs[p].pc = "running" THEN "0" ELSE "signal"]
    /\ UNCHANGED appVars

\* SIGTERM or SIGINT: a running daemon stops its bridge and its IPC server,
\* unlinks both paths and exits with status 0; a daemon that has not
\* installed its handlers dies as it is
shutdown(p) ==
    /\ p \in DOMAIN procs /\ procs[p].pc # "exited"
    /\ files' = IF procs[p].pc = "running" THEN NoFiles ELSE files
    /\ procs' = [procs EXCEPT ![p].pc = "exited", ![p].conns = {},
                              ![p].exit = IF procs[p].pc = "running" THEN "0" ELSE "signal"]
    /\ UNCHANGED appVars

\* SIGKILL or a crash
kill(p) ==
    /\ p \in DOMAIN procs /\ procs[p].pc # "exited"
    /\ procs' = [procs EXCEPT ![p].pc = "exited", ![p].conns = {}, ![p].exit = "signal"]
    /\ UNCHANGED <<files, appVars>>

NextDaemon ==
    \/ \E p \in Pids, port \in Ports : ensureDaemon(p, port)
    \/ \E p \in Pids : startCleanSocket(p)
    \/ \E p \in Pids : startBridge(p)
    \/ \E p \in Pids : startIpc(p)
    \/ \E p \in Pids : writeInfo(p)
    \/ \E p \in Pids, ws \in Peers : accept(p, ws)
    \/ \E p \in Pids : shutdown(p)
    \/ \E p \in Pids : kill(p)

SpecDaemon == Init /\ [][NextDaemon]_vars

\* C15: a daemon that starts while daemon.json names a live pid exits and
\* changes neither daemon.json nor the socket file, and no step of a
\* daemon's start removes the socket file of a daemon that is running.
C15_LiveDaemonNotDisturbed ==
    [][\A p \in Pids :
          /\ (startCleanSocket(p) /\ files.json # NoFile /\ isDaemonAlive(files.json)) =>
                 /\ files' = files
                 /\ procs'[p].pc = "exited"
          /\ ((startCleanSocket(p) \/ startBridge(p) \/ startIpc(p) \/ writeInfo(p))
              /\ files.sock # NoFile /\ files'.sock # files.sock) =>
                 procs[files.sock].pc # "running"]_vars

----------------------------------------------------------------------------
(* Profiler: profiler.ts *)

\* a JS Map as the sequence of its entries in insertion order
OMapHas(m, k) == \E j \in 1..Len(m) : m[j].key = k

OMapGet(m, k) == IF OMapHas(m, k) THEN m[CHOOSE j \in 1..Len(m) : m[j].key = k].value ELSE Undefined

OMapSet(m, k, v) ==
    IF OMapHas(m, k)
    THEN [j \in 1..Len(m) |-> IF m[j].key = k THEN [key |-> k, value |-> v] ELSE m[j]]
    ELSE Append(m, [key |-> k, value |-> v])

OMapKeys(m) == [j \in 1..Len(m) |-> m[j].key]

\* a nullable array: null, or the array of its items
NullList == [isNull |-> TRUE, items |-> <<>>]
List(items) == [isNull |-> FALSE, items |-> items]

\* Profiler.isActive, of a session value and of the stored session
active(S) == S.exists /\ S.stoppedAt = NullTime
isActive == active(session)

\* the name argument of profile-start: absent, or the string "s"
NoName == ""
SessionNames == {NoName, "s"}

\* a start that keeps the commits of the session it replaces
startKeeping(name) ==
    [session |-> [exists |-> TRUE,
                  name |-> IF name # NoName THEN [given |-> TRUE, text |-> name, stamp |-> 0]
                           ELSE [given |-> FALSE, text |-> "session-", stamp |-> now],
                  startedAt |-> now, stoppedAt |-> NullTime, commits |-> session.commits],
     displayNames |-> EmptyMap]

\* Profiler.start: the session and the cleared name cache
start(name) ==
    [session |-> [exists |-> TRUE,
                  name |-> IF name # NoName THEN [given |-> TRUE, text |-> name, stamp |-> 0]
                           ELSE [given |-> FALSE, text |-> "session-", stamp |-> now],
                  startedAt |-> now, stoppedAt |-> NullTime, commits |-> <<>>],
     displayNames |-> EmptyMap]

trackComponent(DN, id, displayName) == MapSet(DN, id, displayName)

RECURSIVE trackAll(_, _)
trackAll(DN, ids) ==
    IF ids = {} THEN DN
    ELSE LET id == CHOOSE x \in ids : TRUE
         IN trackAll(trackComponent(DN, id, nodes[id].displayName), ids \ {id})

\* parseDurations: an array of [id, duration] tuples or a flat array
RECURSIVE parseTuples(_, _)
parseTuples(raw, target) ==
    IF raw = <<>> THEN target
    ELSE parseTuples(Tail(raw), OMapSet(target, Head(raw)[1], Head(raw)[2]))

RECURSIVE parseFlat(_, _, _)
parseFlat(flat, i, target) ==
    IF ~(i < Len(flat)) THEN target
    ELSE parseFlat(flat, i + 2, OMapSet(target, At(flat, i), At(flat, i + 1)))

parseDurations(raw, target) ==
    IF raw.isTuples THEN parseTuples(raw.tuples, target) ELSE parseFlat(raw.flat, 0, target)

\* the normalisation of one change description: d.x || default
RECURSIVE parseChanges(_, _)
parseChanges(entries, target) ==
    IF entries = <<>> THEN target
    ELSE LET id == Head(entries)[1]
             d == Head(entries)[2]
         IN parseChanges(Tail(entries),
                OMapSet(target, id,
                    [didHooksChange |-> d.didHooksChange, isFirstMount |-> d.isFirstMount,
                     props |-> d.props, state |-> d.state, hooks |-> d.hooks]))

\* Profiler.processCommitData: the commit that is pushed
processCommitData(commitData) ==
    [timestamp |-> IF commitData.timestamp = Undefined \/ commitData.timestamp = 0
                   THEN now ELSE commitData.timestamp,
     duration |-> IF commitData.duration = Undefined THEN 0 ELSE commitData.duration,
     fiberActualDurations |-> parseDurations(commitData.fiberActualDurations, <<>>),
     fiberSelfDurations |-> parseDurations(commitData.fiberSelfDurations, <<>>),
     changeDescriptions |-> parseChanges(commitData.changeDescriptions, <<>>)]

RECURSIVE processEach(_, _)
processEach(commits, commitDatas) ==
    IF commitDatas = <<>> THEN commits
    ELSE processEach(Append(commits, processCommitData(Head(commitDatas))), Tail(commitDatas))

RECURSIVE processRoots(_, _)
processRoots(commits, dataForRoots) ==
    IF dataForRoots = <<>> THEN commits
    ELSE processRoots(processEach(commits, Head(dataForRoots).commitData), Tail(dataForRoots))

\* a processProfilingData that does not look at stoppedAt
processProfilingDataUnguarded(S, payload) ==
    IF ~S.exists THEN S
    ELSE IF payload.hasRoots THEN [S EXCEPT !.commits = processRoots(@, payload.dataForRoots)]
    ELSE [S EXCEPT !.commits = processEach(@, payload.commitData)]

\* Profiler.processProfilingData: the session after the payload
processProfilingData(S, payload) ==
    IF ~S.exists \/ S.stoppedAt # NullTime THEN S
    ELSE IF payload.hasRoots THEN [S EXCEPT !.commits = processRoots(@, payload.dataForRoots)]
    ELSE [S EXCEPT !.commits = processEach(@, payload.commitData)]

\* a describeCauses without the fallback cause
describeCausesNoFallback(desc) ==
    IF desc.isFirstMount THEN <<"first-mount">>
    ELSE LET c1 == IF ~desc.props.isNull /\ Len(desc.props.items) > 0
                   THEN <<"props-changed">> ELSE <<>>
             c2 == IF ~desc.state.isNull /\ Len(desc.state.items) > 0
                   THEN Append(c1, "state-changed") ELSE c1
         IN IF desc.didHooksChange THEN Append(c2, "hooks-changed") ELSE c2

\* a describeCauses that goes on after first-mount
describeCausesNoStop(desc) ==
    LET c0 == IF desc.isFirstMount THEN <<"first-mount">> ELSE <<>>
        c1 == IF ~desc.props.isNull /\ Len(desc.props.items) > 0
              THEN Append(c0, "props-changed") ELSE c0
        c2 == IF ~desc.state.isNull /\ Len(desc.state.items) > 0
              THEN Append(c1, "state-changed") ELSE c1
        c3 == IF desc.didHooksChange THEN Append(c2, "hooks-changed") ELSE c2
    IN IF Len(c3) = 0 THEN <<"parent-rendered">> ELSE c3

\* describeCauses
describeCauses(desc) ==
    IF desc.isFirstMount THEN <<"first-mount">>
    ELSE LET c1 == IF ~desc.props.isNull /\ Len(desc.props.items) > 0
                   THEN <<"props-changed">> ELSE <<>>
             c2 == IF ~desc.state.isNull /\ Len(desc.state.items) > 0
                   THEN Append(c1, "state-changed") ELSE c1
             c3 == IF desc.didHooksChange THEN Append(c2, "hooks-changed") ELSE c2
         IN IF Len(c3) = 0 THEN <<"parent-rendered">> ELSE c3

\* Set.add of each element of a sequence, in order
RECURSIVE addAll(_, _)
addAll(set, seq) ==
    IF seq = <<>> THEN set
    ELSE addAll(IF Includes(set, Head(seq)) THEN set ELSE Append(set, Head(seq)), Tail(seq))

\* node?.displayName || this.displayNames.get(id) || fallback
nameOf(N, DN, id, fallback) ==
    IF id \in DOMAIN N /\ N[id].displayName # NullStr THEN N[id].displayName
    ELSE IF id \in DOMAIN DN /\ DN[id] # NullStr THEN DN[id]
    ELSE fallback

\* the template `Component#${componentId}`
componentHash(id) == <<67, 111, 109, 112, 111, 110, 101, 110, 116, 35>> \o digits(id)

NoReport == [exists |-> FALSE]

\* a loop of getReport that takes a duration of 0 for no render
RECURSIVE reportLoopTruthy(_, _, _)
reportLoopTruthy(commits, componentId, acc) ==
    IF commits = <<>> THEN acc
    ELSE LET commit == Head(commits)
             duration == OMapGet(commit.fiberActualDurations, componentId)
             desc == OMapGet(commit.changeDescriptions, componentId)
         IN reportLoopTruthy(Tail(commits), componentId,
                IF duration = Undefined \/ duration = 0 THEN acc
                ELSE [renderCount |-> acc.renderCount + 1,
                      totalDuration |-> acc.totalDuration + duration,
                      maxDuration |-> IF duration > acc.maxDuration THEN duration ELSE acc.maxDuration,
                      causeSet |-> IF OMapHas(commit.changeDescriptions, componentId)
                                   THEN addAll(acc.causeSet, describeCauses(desc))
                                   ELSE acc.causeSet])

\* the loop of getReport over the commits
RECURSIVE reportLoop(_, _, _)
reportLoop(commits, componentId, acc) ==
    IF commits = <<>> THEN acc
    ELSE LET commit == Head(commits)
             duration == OMapGet(commit.fiberActualDurations, componentId)
             desc == OMapGet(commit.changeDescriptions, componentId)
         IN reportLoop(Tail(commits), componentId,
                IF duration = Undefined THEN acc
                ELSE [renderCount |-> acc.renderCount + 1,
                      totalDuration |-> acc.totalDuration + duration,
                      maxDuration |-> IF duration > acc.maxDuration THEN duration ELSE acc.maxDuration,
                      causeSet |-> IF OMapHas(commit.changeDescriptions, componentId)
                                   THEN addAll(acc.causeSet, describeCauses(desc))
                                   ELSE acc.causeSet])

\* Profiler.getReport; avgDuration is the quotient totalDuration / renderCount,
\* kept as its numerator and denominator
getReport(S, N, DN, componentId) ==
    IF ~S.exists THEN NoReport
    ELSE LET acc == reportLoop(S.commits, componentId,
                        [renderCount |-> 0, totalDuration |-> 0, maxDuration |-> 0, causeSet |-> <<>>])
         IN IF acc.renderCount = 0 THEN NoReport
            ELSE [exists |-> TRUE, id |-> componentId,
                  displayName |-> nameOf(N, DN, componentId, componentHash(componentId)),
                  renderCount |-> acc.renderCount,
                  totalDuration |-> acc.totalDuration,
                  avgDuration |-> [num |-> acc.totalDuration, den |-> acc.renderCount],
                  maxDuration |-> acc.maxDuration,
                  causes |-> acc.causeSet]

\* the components of getCommitDetails before the sort: one entry per id of
\* fiberActualDurations
commitComponents(commit, N, DN) ==
    [j \in 1..Len(commit.fiberActualDurations) |->
        LET id == commit.fiberActualDurations[j].key
        IN [id |-> id,
            displayName |-> nameOf(N, DN, id, componentHash(id)),
            actualDuration |-> commit.fiberActualDurations[j].value,
            selfDuration |-> IF OMapGet(commit.fiberSelfDurations, id) = Undefined
                             THEN 0 ELSE OMapGet(commit.fiberSelfDurations, id),
            causes |-> IF OMapHas(commit.changeDescriptions, id)
                       THEN describeCauses(OMapGet(commit.changeDescriptions, id)) ELSE <<>>]]

\* the loop of Profiler.stop that counts the renders per component
RECURSIVE countKeys(_, _)
countKeys(keys, renderCounts) ==
    IF keys = <<>> THEN renderCounts
    ELSE countKeys(Tail(keys),
             OMapSet(renderCounts, Head(keys),
                     (IF OMapHas(renderCounts, Head(keys)) THEN OMapGet(renderCounts, Head(keys)) ELSE 0) + 1))

RECURSIVE countRenders(_, _)
countRenders(commits, renderCounts) ==
    IF commits = <<>> THEN renderCounts
    ELSE countRenders(Tail(commits), countKeys(OMapKeys(Head(commits).fiberActualDurations), renderCounts))

\* Array.prototype.sort((a, b) => b.count - a.count): stable, by count descending
RECURSIVE insertByCount(_, _)
insertByCount(sorted, e) ==
    IF sorted = <<>> THEN <<e>>
    ELSE IF Head(sorted).count >= e.count THEN <<Head(sorted)>> \o insertByCount(Tail(sorted), e)
    ELSE <<e>> \o sorted

RECURSIVE sortByCount(_, _)
sortByCount(seq, sorted) ==
    IF seq = <<>> THEN sorted ELSE sortByCount(Tail(seq), insertByCount(sorted, Head(seq)))

\* Profiler.stop(tree): the session after the call and the summary, or null
stop(S, N, DN) ==
    IF ~S.exists THEN [session |-> S, summary |-> [exists |-> FALSE]]
    ELSE LET S1 == [S EXCEPT !.stoppedAt = now]
             renderCounts == countRenders(S1.commits, <<>>)
             entries == [j \in 1..Len(renderCounts) |->
                            [id |-> renderCounts[j].key,
                             displayName |-> nameOf(N, DN, renderCounts[j].key, NullStr),
                             count |-> renderCounts[j].value]]
         IN [session |-> S1,
             summary |-> [exists |-> TRUE, name |-> S1.name,
                          duration |-> S1.stoppedAt - S1.startedAt,
                          commitCount |-> Len(S1.commits),
                          componentRenderCounts |-> sortByCount(entries, <<>>)]]

----------------------------------------------------------------------------
(* SpecProfiler: one peer, its mount, the profiling commands and the
   profilingData messages *)

\* the commits that one session keeps
MaxCommits == 2

\* the 'profile-stop' commands that wait at the same time
MaxStops == 2

Tuples(pairs) == [isTuples |-> TRUE, tuples |-> pairs, flat |-> <<>>]
Flat(numbers) == [isTuples |-> FALSE, tuples |-> <<>>, flat |-> numbers]

Desc(isFirstMount, props, state, didHooksChange) ==
    [didHooksChange |-> didHooksChange, isFirstMount |-> isFirstMount,
     props |-> props, state |-> state, hooks |-> NullList]

\* the commit that mounts components 1 and 2
CommitMount ==
    [timestamp |-> Undefined, duration |-> 12,
     fiberActualDurations |-> Tuples(<< <<1, 10>>, <<2, 4>> >>),
     fiberSelfDurations |-> Tuples(<< <<1, 6>>, <<2, 4>> >>),
     changeDescriptions |-> << <<1, Desc(TRUE, List(<<"x">>), NullList, FALSE)>>,
                               <<2, Desc(TRUE, NullList, NullList, FALSE)>> >>]

\* the commit that renders component 1 for new props and component 2 with it
CommitUpdate ==
    [timestamp |-> 7, duration |-> Undefined,
     fiberActualDurations |-> Flat(<<2, 3, 1, 5>>),
     fiberSelfDurations |-> Flat(<<2, 3, 1, 2>>),
     changeDescriptions |-> << <<1, Desc(FALSE, List(<<"x">>), List(<<>>), TRUE)>>,
                               <<2, Desc(FALSE, NullList, NullList, FALSE)>> >>]

\* the commit that renders component 2 for new state, with no description
\* of it
CommitState ==
    [timestamp |-> 9, duration |-> 1,
     fiberActualDurations |-> Tuples(<< <<2, 0>> >>),
     fiberSelfDurations |-> Flat(<<>>),
     changeDescriptions |-> <<>>]

Nested(commitDatas) ==
    [hasRoots |-> TRUE, dataForRoots |-> <<[commitData |-> commitDatas]>>, commitData |-> <<>>]

FlatPayload(commitDatas) ==
    [hasRoots |-> FALSE, dataForRoots |-> <<>>, commitData |-> commitDatas]

ProfilingPayloads ==
    {Nested(<<CommitMount>>), FlatPayload(<<CommitUpdate>>), FlatPayload(<<CommitState>>),
     Nested(<<CommitMount, CommitUpdate>>)}

\* the 'profile-start' command
profileStart(name) ==
    /\ LET st == start(name)
       IN /\ session' = st.session
          /\ displayNames' = trackAll(st.displayNames, DOMAIN nodes)
    /\ response' = [type |-> "profile-start", ok |-> TRUE, data |-> "Profiling started"]
    /\ sent' = sendToAll([event |-> "startProfiling", payload |-> NoPayload])
    /\ UNCHANGED <<stopsPending, treeVars, labelVars, bridgeVars, inspectVars, now,
                   daemonVars, ipcVars, eventVars>>

\* the 'profile-stop' command up to its await: stopProfilingAndCollect
\* broadcasts stopProfiling and waits for the grace window
profileStopBegin ==
    /\ Len(stopsPending) < MaxStops
    /\ stopsPending' = Append(stopsPending, now)
    /\ response' = NoResponse
    /\ sent' = sendToAll([event |-> "stopProfiling", payload |-> NoPayload])
    /\ UNCHANGED <<session, displayNames, treeVars, labelVars, bridgeVars, inspectVars, now,
                   daemonVars, ipcVars, eventVars>>

\* the 'profile-stop' command after its await
profileStopEnd ==
    /\ stopsPending # <<>>
    /\ stopsPending' = Tail(stopsPending)
    /\ LET r == stop(session, nodes, displayNames)
       IN /\ session' = r.session
          /\ response' = IF r.summary.exists
                         THEN [type |-> "profile-stop", ok |-> TRUE, data |-> r.summary]
                         ELSE [type |-> "profile-stop", ok |-> FALSE,
                               error |-> "No active profiling session"]
    /\ sent' = NoneSent
    /\ UNCHANGED <<displayNames, treeVars, labelVars, bridgeVars, inspectVars, now,
                   daemonVars, ipcVars, eventVars>>

\* ws.on('message') with event 'profilingData': the payload is forwarded to
\* the profiler
handleProfilingData(ws, payload) ==
    /\ ws \in connections
    /\ session' = processProfilingData(session, payload)
    /\ Len(session'.commits) <= MaxCommits
    /\ response' = NoResponse
    /\ sent' = NoneSent
    /\ UNCHANGED <<displayNames, stopsPending, treeVars, labelVars, bridgeVars, inspectVars, now,
                   daemonVars, ipcVars, eventVars>>

NextProfiler ==
    \/ Connect(OldBackend)
    \/ SendMount
    \/ cleanupConnection(OldBackend)
    \/ \E name \in SessionNames : profileStart(name)
    \/ profileStopBegin
    \/ profileStopEnd
    \/ \E payload \in ProfilingPayloads : handleProfilingData(OldBackend, payload)
    \/ Tick

SpecProfiler == Init /\ [][NextProfiler]_vars

\* the names of the live nodes, as profile-start caches them
NameSnapshot == [id \in DOMAIN nodes |-> nodes[id].displayName]

\* C17: there is one session at most, and it is active or not; profile-start
\* installs a new, empty, active session timestamped now and replaces the
\* cached names by the names of the live nodes; profilingActive becomes true
\* by profile-start, false by the completion of profile-stop, and no other
\* step changes it.
C17_OneSessionActiveFromStartToStop ==
    [][/\ \A name \in SessionNames : profileStart(name) =>
              /\ isActive'
              /\ session'.commits = <<>>
              /\ session'.startedAt = now
              /\ displayNames' = NameSnapshot
       /\ profileStopEnd => ~isActive'
       /\ (~(\E name \in SessionNames : profileStart(name)) /\ ~profileStopEnd) =>
              (isActive' <=> isActive)]_vars

\* a profile-start has answered, after the clock moved and while a
\* profile-stop waits, and cached the names of the mounted nodes
C17_Witness ==
    /\ response.type = "profile-start"
    /\ isActive
    /\ session.commits = <<>>
    /\ session.startedAt > 0
    /\ stopsPending # <<>>
    /\ DOMAIN displayNames = {1, 2}

\* C18: a profile-stop that completes while no session is active answers
\* ok:false with 'No active profiling session' and leaves the session and
\* the cached names as they were.
C18_StopWithoutActiveSession ==
    [][(profileStopEnd /\ ~isActive) =>
          /\ response'.ok = FALSE
          /\ response'.error = "No active profiling session"
          /\ session' = session
          /\ displayNames' = displayNames]_vars

\* C19: a profilingData message that arrives while no session is active
\* changes nothing of the profiler; the commits of a stopped session change
\* only when profile-start replaces the session; and commits are appended
\* only in steps that begin with the session active.
C19_CommitsOnlyWhileActive ==
    [][/\ \A payload \in ProfilingPayloads :
              (handleProfilingData(OldBackend, payload) /\ ~isActive) =>
                  (session' = session /\ displayNames' = displayNames)
       /\ (session.exists /\ session.stoppedAt # NullTime /\ session'.commits # session.commits) =>
              (\E name \in SessionNames : profileStart(name))
       /\ (session'.commits # session.commits /\ session'.commits # <<>>) =>
              /\ isActive
              /\ Len(session'.commits) > Len(session.commits)
              /\ SubSeq(session'.commits, 1, Len(session.commits)) = session.commits
              /\ session'.startedAt = session.startedAt]_vars

\* a stopped session that kept its commits, with the peer still connected
C19_Witness ==
    /\ session.exists
    /\ session.stoppedAt # NullTime
    /\ Len(session.commits) = MaxCommits
    /\ OldBackend \in connections
    /\ response = NoResponse

\* the components that some commit of the session rendered
RenderedIds ==
    UNION {Range(OMapKeys(session.commits[k].fiberActualDurations)) : k \in 1..Len(session.commits)}

\* the cause sets of the commit details of the session
DetailCauseSets ==
    UNION {{commitComponents(session.commits[k], nodes, displayNames)[j].causes :
               j \in 1..Len(session.commits[k].fiberActualDurations)} :
           k \in 1..Len(session.commits)}

\* the cause sets of the component reports of the session
ReportCauseSets ==
    {getReport(session, nodes, displayNames, id).causes :
        id \in {x \in RenderedIds : getReport(session, nodes, displayNames, x).exists}}

firstMountAlone(causes) == Includes(causes, "first-mount") => Len(causes) = 1

\* the causes of id in the commits of the session that describe it
CausesAcrossCommits(id) ==
    UNION {Range(describeCauses(OMapGet(session.commits[k].changeDescriptions, id))) :
              k \in {x \in 1..Len(session.commits) :
                        /\ OMapGet(session.commits[x].fiberActualDurations, id) # Undefined
                        /\ OMapHas(session.commits[x].changeDescriptions, id)}}

\* C20: in every cause set the profiler returns, of a commit detail or of a
\* component report, first-mount is the only cause when it is present.
C20_FirstMountNeverWithOthers ==
    \A causes \in DetailCauseSets \cup ReportCauseSets : firstMountAlone(causes)

\* C20, as the code has it: in the cause set of one component in one commit
\* detail first-mount is the only cause when it is present, and the cause set
\* of a component report is the union of the cause sets of the commits that
\* rendered and described the component, each cause once.
C20_FirstMountAloneInCommit ==
    /\ \A causes \in DetailCauseSets : firstMountAlone(causes)
    /\ \A id \in RenderedIds :
           LET report == getReport(session, nodes, displayNames, id)
           IN report.exists =>
                  /\ Range(report.causes) = CausesAcrossCommits(id)
                  /\ Len(report.causes) = Cardinality(Range(report.causes))

\* component 1 mounted, with changed props in the description of its mount,
\* and rendered again for new props and hooks
C20_Witness ==
    /\ Len(session.commits) = 2
    /\ session.commits[1].changeDescriptions[1].value.isFirstMount
    /\ ~session.commits[1].changeDescriptions[1].value.props.isNull
    /\ commitComponents(session.commits[1], nodes, displayNames)[1].causes = <<"first-mount">>
    /\ getReport(session, nodes, displayNames, 1).causes
           = <<"first-mount", "props-changed", "hooks-changed">>

----------------------------------------------------------------------------
(* The IPC server: daemon.ts:79-115 and 117-238 *)

\* a request text is a sequence of tokens; Newline ends a line
Newline == "\n"

\* the command types that the request texts of the model carry; "bogus" is
\* no case of handleCommand
IpcTypes == {"ping", "status", "profile-start", "bogus"}

\* JSON.parse of a line: the texts null, {} and {"type": t} parse, every
\* other text throws
JSONparse(line) ==
    IF line = <<"null">>
    THEN [threw |-> FALSE, isNull |-> TRUE, hasType |-> FALSE, type |-> ""]
    ELSE IF line = <<"{", "}">>
    THEN [threw |-> FALSE, isNull |-> FALSE, hasType |-> FALSE, type |-> ""]
    ELSE IF Len(line) = 3 /\ line[1] = "{" /\ line[3] = "}" /\ line[2] \in IpcTypes
    THEN [threw |-> FALSE, isNull |-> FALSE, hasType |-> TRUE, type |-> line[2]]
    ELSE [threw |-> TRUE, isNull |-> FALSE, hasType |-> FALSE, type |-> ""]

\* IpcResponse
NoData == [text |-> ""]
Ok(data) == [ok |-> TRUE, error |-> <<>>, data |-> data]
Err(error) == [ok |-> FALSE, error |-> error, data |-> NoData]

\* String(cmd.type) in the template of the default case
typeText(cmd) == IF cmd.hasType THEN cmd.type ELSE "undefined"

\* handleCommand for the commands that do not await: the profiler state
\* after the command and the response
handleCommand(st, cmd) ==
    IF cmd.isNull
    THEN [st |-> st, response |-> Err(<<"Cannot read properties of null (reading 'type')">>)]
    ELSE IF cmd.hasType /\ cmd.type = "ping"
    THEN [st |-> st, response |-> Ok([text |-> "pong"])]
    ELSE IF cmd.hasType /\ cmd.type = "status"
    THEN [st |-> st,
          response |-> Ok([connectedApps |-> statusInfo.connectedApps,
                           componentCount |-> statusInfo.componentCount,
                           profilingActive |-> active(st.session)])]
    ELSE IF cmd.hasType /\ cmd.type = "profile-start"
    THEN [st |-> [session |-> start(NoName).session,
                  displayNames |-> trackAll(start(NoName).displayNames, DOMAIN nodes)],
          response |-> Ok([text |-> "Profiling started"])]
    ELSE [st |-> st, response |-> Err(<<"Unknown command: ", typeText(cmd)>>)]

\* String.prototype.indexOf: the 0-based index of the first ch, or -1
indexOf(buffer, ch) ==
    IF Includes(buffer, ch)
    THEN (CHOOSE k \in 1..Len(buffer) : buffer[k] = ch /\ \A j \in 1..(k - 1) : buffer[j] # ch) - 1
    ELSE 0 - 1

\* one round of the loop of the data handler; sync are the responses written
\* in the catch, deferred the responses written by the then-callbacks
lineStep(buffer, st, sync, deferred) ==
    LET newlineIdx == indexOf(buffer, Newline)
        line == SubSeq(buffer, 1, newlineIdx)
        rest == SubSeq(buffer, newlineIdx + 2, Len(buffer))
        cmd == JSONparse(line)
    IN IF cmd.threw
       THEN [buffer |-> rest, st |-> st, sync |-> Append(sync, Err(<<"Invalid JSON">>)),
             deferred |-> deferred]
       ELSE [buffer |-> rest, st |-> handleCommand(st, cmd).st, sync |-> sync,
             deferred |-> Append(deferred, handleCommand(st, cmd).response)]

\* a data handler with `if` for `while`: one line for each chunk
dataLoopOnce(buffer, st, sync, deferred) ==
    IF indexOf(buffer, Newline) = 0 - 1
    THEN [buffer |-> buffer, st |-> st, sync |-> sync, deferred |-> deferred]
    ELSE lineStep(buffer, st, sync, deferred)

\* while ((newlineIdx = buffer.indexOf('\n')) !== -1)
RECURSIVE dataLoop(_, _, _, _)
dataLoop(buffer, st, sync, deferred) ==
    IF indexOf(buffer, Newline) = 0 - 1
    THEN [buffer |-> buffer, st |-> st, sync |-> sync, deferred |-> deferred]
    ELSE LET r == lineStep(buffer, st, sync, deferred)
         IN dataLoop(r.buffer, r.st, r.sync, r.deferred)

\* the tokens that wait in the buffer of the connection, and the responses
\* written to it
MaxBuffer == 2
MaxOut == 3

Line(text) == Append(text, Newline)

\* the chunks that the client sends: whole request lines, pieces of a line,
\* and several lines in one chunk
IpcChunks ==
    {Line(<<"{", t, "}">>) : t \in IpcTypes}
    \cup {Line(<<"null">>), Line(<<"{", "}">>), Line(<<>>), Line(<<"ping">>),
          <<"{", "ping">>, <<"{">>, <<"}", Newline>>, <<"bogus">>,
          Line(<<>>) \o Line(<<"null">>),
          Line(<<"{", "ping">>) \o Line(<<"{", "ping", "}">>),
          Line(<<"{", "ping", "}">>) \o Line(<<"}">>) \o Line(<<"{", "bogus", "}">>),
          Line(<<"{", "profile-start", "}">>) \o Line(<<"{", "status", "}">>) \o <<"{">>}

\* conn.on('data') of the IPC connection, with the then-callbacks of the
\* commands it started
ipcData(chunk) ==
    LET r == dataLoop(ipcBuffer \o chunk, [session |-> session, displayNames |-> displayNames],
                      <<>>, <<>>)
    IN /\ Len(r.buffer) <= MaxBuffer
       /\ Len(ipcOut) + Len(r.sync) + Len(r.deferred) <= MaxOut
       /\ ipcBuffer' = r.buffer
       /\ ipcOut' = ipcOut \o r.sync \o r.deferred
       /\ session' = r.st.session
       /\ displayNames' = r.st.displayNames
       /\ response' = NoResponse
       /\ sent' = NoneSent
       /\ UNCHANGED <<stopsPending, treeVars, labelVars, bridgeVars, inspectVars, now, daemonVars,
                      eventVars>>

\* the client reads the first response line
ipcRead ==
    /\ ipcOut # <<>>
    /\ ipcOut' = Tail(ipcOut)
    /\ response' = NoResponse
    /\ sent' = NoneSent
    /\ UNCHANGED <<ipcBuffer, profilerVars, treeVars, labelVars, bridgeVars, inspectVars, now,
                   daemonVars, eventVars>>

NextIpc ==
    \/ Connect(OldBackend)
    \/ \E chunk \in IpcChunks : ipcData(chunk)
    \/ ipcRead

SpecIpc == Init /\ [][NextIpc]_vars

\* the request texts that are JSON
JsonTexts == {<<"null">>, <<"{", "}">>} \cup {<<"{", t, "}">> : t \in IpcTypes}

\* the lines that a text completes: for each Newline, the tokens since the
\* Newline before it
NewlinesOf(input) == {k \in 1..Len(input) : input[k] = Newline}

lineBefore(input, k) ==
    LET before == {j \in NewlinesOf(input) : j < k}
        from == IF before = {} THEN 1 ELSE (CHOOSE j \in before : \A x \in before : x <= j) + 1
    IN SubSeq(input, from, k - 1)

isInvalidJson(r) == ~r.ok /\ r.error = <<"Invalid JSON">>
isUnknownCommand(r, type) == ~r.ok /\ r.error = <<"Unknown command: ", type>>

\* C16: a data event on the IPC connection appends to the output exactly one
\* response for every line that the event completes; as many of them are
\* 'Invalid JSON' as lines are not JSON, as many 'Unknown command: bogus' as
\* lines carry the type bogus; what follows the last Newline stays in the
\* buffer; and when every completed line is not JSON or of unknown type, the
\* tree, the bridge, the profiler and the inspections are unchanged.
C16_OneResponsePerLine ==
    [][\A chunk \in IpcChunks : ipcData(chunk) =>
          LET input == ipcBuffer \o chunk
              ends == NewlinesOf(input)
              added == SubSeq(ipcOut', Len(ipcOut) + 1, Len(ipcOut'))
              last == IF ends = {} THEN 0 ELSE CHOOSE j \in ends : \A x \in ends : x <= j
          IN /\ SubSeq(ipcOut', 1, Len(ipcOut)) = ipcOut
             /\ Len(added) = Cardinality(ends)
             /\ Cardinality({k \in 1..Len(added) : isInvalidJson(added[k])})
                    = Cardinality({k \in ends : lineBefore(input, k) \notin JsonTexts})
             /\ Cardinality({k \in 1..Len(added) : isUnknownCommand(added[k], "bogus")})
                    = Cardinality({k \in ends : lineBefore(input, k) = <<"{", "bogus", "}">>})
             /\ Cardinality({k \in 1..Len(added) : isUnknownCommand(added[k], "undefined")})
                    = Cardinality({k \in ends : lineBefore(input, k) = <<"{", "}">>})
             /\ ipcBuffer' = SubSeq(input, last + 1, Len(input))
             /\ (\A k \in ends : \/ lineBefore(input, k) \notin JsonTexts
                                 \/ lineBefore(input, k) \in {<<"{", "bogus", "}">>, <<"{", "}">>}) =>
                    UNCHANGED <<treeVars, labelVars, bridgeVars, inspectVars, profilerVars>>]_vars

\* the connection has answered a line that is not JSON, a command of unknown
\* type and a ping after them, and holds the beginning of a further line
C16_Witness ==
    /\ Len(ipcOut) >= 3
    /\ \E i, j, k \in 1..Len(ipcOut) :
           /\ i < k /\ j < k
           /\ isInvalidJson(ipcOut[i])
           /\ isUnknownCommand(ipcOut[j], "bogus")
           /\ ipcOut[k].ok /\ ipcOut[k].data = [text |-> "pong"]
    /\ ipcBuffer # <<>>

----------------------------------------------------------------------------
(* The causes of one commit *)

\* the entries of the commit details of the session, each with the commit
\* it belongs to
DetailEntries ==
    UNION {{[commit |-> k, entry |-> commitComponents(session.commits[k], nodes, displayNames)[j]] :
               j \in 1..Len(session.commits[k].fiberActualDurations)} :
           k \in 1..Len(session.commits)}

SpecificCauses == {"props-changed", "state-changed", "hooks-changed"}

parentRenderedIffNoOther(causes) ==
    Includes(causes, "parent-rendered")
        <=> (Range(causes) \cap SpecificCauses = {} /\ ~Includes(causes, "first-mount"))

\* C21: the causes of every component that a commit rendered contain
\* parent-rendered exactly when they contain none of props-changed,
\* state-changed, hooks-changed and not first-mount, and they are not empty.
C21_ParentRenderedIffNoOther ==
    \A e \in DetailEntries :
        /\ parentRenderedIffNoOther(e.entry.causes)
        /\ e.entry.causes # <<>>

\* C21, as the code has it: for a rendered component that the commit
\* describes, the causes are not empty and contain parent-rendered exactly
\* when the description is no first mount and has no changed props, no
\* changed state and no changed hooks; for a rendered component that the
\* commit does not describe, the causes are empty.
C21_ParentRenderedIffNoOtherDescribed ==
    \A e \in DetailEntries :
        LET changes == session.commits[e.commit].changeDescriptions
            desc == OMapGet(changes, e.entry.id)
        IN IF OMapHas(changes, e.entry.id)
           THEN /\ e.entry.causes # <<>>
                /\ parentRenderedIffNoOther(e.entry.causes)
                /\ Includes(e.entry.causes, "parent-rendered")
                       <=> /\ ~desc.isFirstMount
                           /\ desc.props.isNull \/ desc.props.items = <<>>
                           /\ desc.state.isNull \/ desc.state.items = <<>>
                           /\ ~desc.didHooksChange
           ELSE e.entry.causes = <<>>

\* component 2 rendered with its parent in the first commit, which describes
\* it, and rendered in the second commit, which does not describe it
C21_Witness ==
    /\ Len(session.commits) = 2
    /\ \E e \in DetailEntries :
           e.commit = 1 /\ e.entry.id = 2 /\ e.entry.causes = <<"parent-rendered">>
    /\ \E e \in DetailEntries :
           e.commit = 2 /\ e.entry.id = 2 /\ e.entry.causes = <<>>

----------------------------------------------------------------------------
(* The numbers of a component report *)

\* the commits of the session whose fiberActualDurations contain id
CommitsWith(id) ==
    {k \in 1..Len(session.commits) : OMapHas(session.commits[k].fiberActualDurations, id)}

actualDuration(k, id) == OMapGet(session.commits[k].fiberActualDurations, id)

RECURSIVE SumOfDurations(_, _)
SumOfDurations(ks, id) ==
    IF ks = {} THEN 0
    ELSE LET k == CHOOSE x \in ks : TRUE
         IN actualDuration(k, id) + SumOfDurations(ks \ {k}, id)

\* the ids that reports are asked for: the ids of the payloads and one that
\* no payload carries
ReportIds == 1..3

\* C22: getReport(id) is null exactly when no commit of the session contains
\* id; otherwise renderCount is the number of the commits that contain id,
\* totalDuration the sum of its actual durations in them, maxDuration their
\* maximum and avgDuration the quotient totalDuration / renderCount.
C22_ReportNumbers ==
    \A id \in ReportIds :
        LET report == getReport(session, nodes, displayNames, id)
            ks == CommitsWith(id)
        IN /\ report.exists <=> (session.exists /\ ks # {})
           /\ report.exists =>
                  /\ report.id = id
                  /\ report.renderCount = Cardinality(ks)
                  /\ report.totalDuration = SumOfDurations(ks, id)
                  /\ \E k \in ks : report.maxDuration = actualDuration(k, id)
                  /\ \A k \in ks : report.maxDuration >= actualDuration(k, id)
                  /\ report.avgDuration.num = report.totalDuration
                  /\ report.avgDuration.den = report.renderCount

\* component 2 rendered in two commits, in 3 ms and in 0 ms, component 1 in
\* one, and no commit contains component 3
C22_Witness ==
    /\ getReport(session, nodes, displayNames, 2).exists
    /\ getReport(session, nodes, displayNames, 2).renderCount = 2
    /\ getReport(session, nodes, displayNames, 2).totalDuration = 3
    /\ getReport(session, nodes, displayNames, 2).maxDuration = 3
    /\ getReport(session, nodes, displayNames, 1).renderCount = 1
    /\ ~getReport(session, nodes, displayNames, 3).exists

----------------------------------------------------------------------------
(* The display names of the profiler *)

\* the name of id by the order tree, snapshot of profile-start, Component#id
ResolvedName(id) ==
    IF id \in DOMAIN nodes /\ nodes[id].displayName # NullStr THEN nodes[id].displayName
    ELSE IF id \in DOMAIN displayNames /\ displayNames[id] # NullStr THEN displayNames[id]
    ELSE componentHash(id)

\* C23: every display name in the summary of profile-stop, in a component
\* report and in a commit detail is the name of the live node, else the name
\* cached at profile-start, else Component#<id>.
C23_NamesResolveInOrder ==
    /\ (response.type = "profile-stop" /\ response.ok) =>
           \A j \in 1..Len(response.data.componentRenderCounts) :
               response.data.componentRenderCounts[j].displayName
                   = ResolvedName(response.data.componentRenderCounts[j].id)
    /\ \A id \in ReportIds :
           getReport(session, nodes, displayNames, id).exists =>
               getReport(session, nodes, displayNames, id).displayName = ResolvedName(id)
    /\ \A e \in DetailEntries : e.entry.displayName = ResolvedName(e.entry.id)

----------------------------------------------------------------------------
(* Connection health and the wait registry.  The tracker of the connection
   events and the registry of the waiters are modelled from the
   specification: sections 4.6 and 4.7 *)

\* the capacity of the ring of connection events
MAX_EVENTS == 8

\* the reconnect window, in milliseconds
RECONNECT_WINDOW == 5000

\* the push into the ring: the oldest entry is evicted at capacity
pushEvent(events, type) ==
    LET all == Append(events, [type |-> type, timestamp |-> now])
    IN IF Len(all) > MAX_EVENTS THEN Tail(all) ELSE all

\* every connection after a disconnect counts as a reconnect, whatever its age
isReconnectAnyAge(events, atEdge) ==
    /\ events # <<>>
    /\ events[Len(events)].type = "disconnected"

\* the previous event is a disconnect inside the reconnect window: age is
\* the only choice inside and outside the window; at the edge of the window,
\* which the specification leaves open, both answers are possible
isReconnect(events, atEdge) ==
    /\ events # <<>>
    /\ events[Len(events)].type = "disconnected"
    /\ \/ now - events[Len(events)].timestamp < RECONNECT_WINDOW
       \/ now - events[Len(events)].timestamp = RECONNECT_WINDOW /\ atEdge

\* the condition of a waiter on the connections conns and the nodes N
conditionMet(w, conns, N) ==
    IF w.condition = "connected" THEN Cardinality(conns) > 0
    ELSE \E id \in DOMAIN N : N[id].displayName = w.name

NoResult == [met |-> FALSE, timeout |-> FALSE]

\* a signal that reaches no waiter
signalNone(ws, conns, N) == ws

\* the registry is signalled: every waiter whose condition holds is resolved
\* with met = true and deregistered
signal(ws, conns, N) ==
    [k \in 1..Len(ws) |->
        IF ws[k].timer = "live" /\ conditionMet(ws[k], conns, N)
        THEN [ws[k] EXCEPT !.timer = "cleared", !.calls = @ + 1,
                           !.result = [met |-> TRUE, timeout |-> FALSE], !.resolvedAt = now]
        ELSE ws[k]]

\* peer open: the connection handler, the health event and the signal
peerOpen(ws) ==
    /\ onConnection(ws)
    /\ \E atEdge \in BOOLEAN :
           recentEvents' = pushEvent(recentEvents,
                               IF isReconnect(recentEvents, atEdge) THEN "reconnected" ELSE "connected")
    /\ hasEverConnected' = TRUE
    /\ UNCHANGED lastDisconnectAt
    /\ waiters' = signal(waiters, connections', nodes')

\* peer close: the cleanup, the health event and the signal
peerClose(ws) ==
    /\ onClose(ws)
    /\ recentEvents' = pushEvent(recentEvents, "disconnected")
    /\ lastDisconnectAt' = now
    /\ UNCHANGED hasEverConnected
    /\ waiters' = signal(waiters, connections', nodes')

\* an operations batch: the registry is signalled when the batch added nodes
peerOperations(ws, ops) ==
    /\ onOperations(ws, ops)
    /\ UNCHANGED healthVars
    /\ waiters' = IF \E id \in DOMAIN nodes' :
                         id \notin DOMAIN nodes \/ nodes'[id].displayName # nodes[id].displayName
                  THEN signal(waiters, connections', nodes') ELSE waiters

\* the timeouts of the wait commands of the model, in milliseconds
WaitTimeouts == {ClockStep, 2 * ClockStep}

\* the names that wait commands ask for: "A" and "b" of the string table
WaitNames == {<<65>>, <<98>>}

\* the wait commands in a behaviour
MaxWaiters == 2

\* the 'wait' command: the condition is evaluated at registration; when it
\* does not hold, the waiter is registered with its deadline timer
waitCommand(condition, name, timeout) ==
    /\ Len(waiters) < MaxWaiters
    /\ now + timeout <= MaxTime
    /\ LET w == [condition |-> condition, name |-> name, deadline |-> now + timeout,
                 timer |-> "live", calls |-> 0, result |-> NoResult, resolvedAt |-> NullTime]
       IN waiters' = IF conditionMet(w, connections, nodes)
                     THEN Append(waiters, [w EXCEPT !.timer = "none", !.calls = 1,
                                                    !.result = [met |-> TRUE, timeout |-> FALSE],
                                                    !.resolvedAt = now])
                     ELSE Append(waiters, w)
    /\ response' = NoResponse
    /\ sent' = NoneSent
    /\ UNCHANGED <<treeVars, labelVars, bridgeVars, inspectVars, profilerVars, daemonVars, ipcVars,
                   healthVars>>

\* the deadline timer of waiter k
onWaitTimeout(k) ==
    /\ k \in 1..Len(waiters)
    /\ waiters[k].timer = "live"
    /\ waiters[k].deadline <= now
    /\ waiters' = [waiters EXCEPT ![k].timer = "fired", ![k].calls = @ + 1,
                                  ![k].result = [met |-> FALSE, timeout |-> TRUE],
                                  ![k].resolvedAt = now]
    /\ response' = NoResponse
    /\ sent' = NoneSent
    /\ UNCHANGED <<treeVars, labelVars, bridgeVars, inspectVars, profilerVars, daemonVars, ipcVars,
                   healthVars>>

\* time passes; a deadline timer that is due fires before the clock moves on
waitTick ==
    /\ \A k \in 1..Len(waiters) : waiters[k].timer = "live" => now < waiters[k].deadline
    /\ Tick

\* the batches of a peer: its root 1 with the component named "A" under it
peerMount == \E ws \in connections : \E ops \in InspectBatches(ws) : peerOperations(ws, ops)

\* the connection events in a behaviour with waiters
MaxEvents == 3

waitOpen(ws) == Len(recentEvents) < MaxEvents /\ peerOpen(ws)

waitClose(ws) == Len(recentEvents) < MaxEvents /\ peerClose(ws)

NextWait ==
    \/ \E ws \in Peers : waitOpen(ws)
    \/ \E ws \in Peers : waitClose(ws)
    \/ peerMount
    \/ \E name \in WaitNames, timeout \in WaitTimeouts : waitCommand("component", name, timeout)
    \/ \E timeout \in WaitTimeouts : waitCommand("connected", <<>>, timeout)
    \/ \E k \in 1..MaxWaiters : onWaitTimeout(k)
    \/ waitTick

SpecWait == Init /\ [][NextWait]_vars

\* the connection events alone: peers come and go while time passes
NextHealth ==
    \/ \E ws \in Peers : peerOpen(ws)
    \/ \E ws \in Peers : peerClose(ws)
    \/ Tick

SpecHealth == Init /\ [][NextHealth]_vars

----------------------------------------------------------------------------
(* The claims on the wait registry and on the connection health *)

\* the waiter at position k of the registry after a step is new in this step
Fresh(k) == k > Len(waiters)

\* the step is a connection open or a batch that added nodes
IsWaitEvent ==
    \/ connections' \ connections # {}
    \/ DOMAIN nodes' \ DOMAIN nodes # {}

\* C24: every wait command is answered exactly once, no later than its
\* timeout: with met = true at once when the condition holds at registration,
\* with met = true in the step of the connection open or of the batch that
\* makes the condition true before the deadline, and with met = false and
\* timeout = true at the deadline; an answered waiter is deregistered, and no
\* waiter is left waiting while its condition holds or its deadline is past
C24_EveryWaitAnswered ==
    [][ /\ \A k \in 1..Len(waiters) :
               /\ k <= Len(waiters')
               /\ waiters[k].calls = 1 => waiters'[k] = waiters[k]
        /\ \A k \in 1..Len(waiters') :
               LET w == waiters'[k]
                   before == IF Fresh(k) THEN 0 ELSE waiters[k].calls
               IN /\ w.calls <= 1
                  /\ (w.calls = 1) = (w.timer # "live")
                  /\ w.calls = 0 => /\ now' <= w.deadline
                                    /\ ~conditionMet(w, connections', nodes')
                  /\ w.calls = 1 => w.resolvedAt <= w.deadline
                  /\ (w.calls = 1 /\ before = 0) =>
                         \/ /\ w.result = [met |-> TRUE, timeout |-> FALSE]
                            /\ conditionMet(w, connections', nodes')
                            /\ Fresh(k) \/ IsWaitEvent
                         \/ /\ w.result = [met |-> FALSE, timeout |-> TRUE]
                            /\ ~Fresh(k)
                            /\ now = w.deadline
                            /\ ~conditionMet(w, connections, nodes)
                  /\ Fresh(k) /\ conditionMet(w, connections, nodes) =>
                         w.calls = 1 /\ w.result.met
      ]_vars

\* a waiter was answered by an event and another one by its deadline timer
C24_Witness ==
    /\ \E k \in 1..Len(waiters) : waiters[k].timer = "cleared" /\ waiters[k].result.met
    /\ \E k \in 1..Len(waiters) : waiters[k].timer = "fired" /\ waiters[k].result.timeout

\* the last event of a non-empty ring
Last(events) == events[Len(events)]

\* C25: the event recorded for a peer that connects is 'reconnected' when
\* the previous event of the ring is a 'disconnected' younger than the
\* reconnect window, and 'connected' when there is no previous event, when
\* it is no disconnect, or when the disconnect is older than the window
C25_ReconnectedInsideWindow ==
    [][ connections' \ connections # {} =>
          /\ recentEvents' # <<>>
          /\ Last(recentEvents').timestamp = now
          /\ Last(recentEvents').type \in {"connected", "reconnected"}
          /\ (recentEvents # <<>> /\ Last(recentEvents).type = "disconnected"
                /\ now - Last(recentEvents).timestamp < RECONNECT_WINDOW)
               => Last(recentEvents').type = "reconnected"
          /\ (\/ recentEvents = <<>>
              \/ Last(recentEvents).type # "disconnected"
              \/ now - Last(recentEvents).timestamp > RECONNECT_WINDOW)
               => Last(recentEvents').type = "connected"
      ]_vars

\* the ring holds a connect that follows an old disconnect and a reconnect
\* that follows a young one
C25_Witness ==
    /\ \E k \in 2..Len(recentEvents) :
           /\ recentEvents[k].type = "connected"
           /\ recentEvents[k - 1].type = "disconnected"
           /\ recentEvents[k].timestamp - recentEvents[k - 1].timestamp > RECONNECT_WINDOW
    /\ \E k \in 2..Len(recentEvents) :
           /\ recentEvents[k].type = "reconnected"
           /\ recentEvents[k - 1].type = "disconnected"
           /\ recentEvents[k].timestamp - recentEvents[k - 1].timestamp < RECONNECT_WINDOW

----------------------------------------------------------------------------
(* The claim on the shutdown of the daemon *)

----------------------------------------------------------------------------
(* The messages of a peer that the bridge answers or obeys:
   devtools-bridge.ts:118-172 *)

Message(event) == [event |-> event, payload |-> NoPayload]

\* the frontend handshake sequence
Handshake ==
    <<Message("getBridgeProtocol"), Message("getBackendVersion"),
      Message("getIfHasUnsupportedRendererVersion"), Message("getHookSettings"),
      Message("getProfilingStatus")>>

HandshakeEvents == {Handshake[k].event : k \in 1..Len(Handshake)}

\* sendTo: the message goes out when the socket is open
sendTo(ws, msg) == IF isOpen(ws) THEN <<msg>> ELSE <<>>

\* the handshake goes to every connection
backendInitializedToAll(ws) ==
    /\ ws \in connections
    /\ sent' = [p \in Peers |-> IF isOpen(p) THEN Handshake ELSE <<>>]
    /\ response' = NoResponse
    /\ UNCHANGED <<treeVars, labelVars, bridgeVars, inspectVars, profilerVars, daemonVars,
                   ipcVars, eventVars>>

\* handleMessage, case 'backendInitialized'
backendInitialized(ws) ==
    /\ ws \in connections
    /\ sent' = [p \in Peers |->
                   IF p = ws
                   THEN sendTo(ws, Handshake[1]) \o sendTo(ws, Handshake[2])
                        \o sendTo(ws, Handshake[3]) \o sendTo(ws, Handshake[4])
                        \o sendTo(ws, Handshake[5])
                   ELSE <<>>]
    /\ response' = NoResponse
    /\ UNCHANGED <<treeVars, labelVars, bridgeVars, inspectVars, profilerVars, daemonVars,
                   ipcVars, eventVars>>

\* handleMessage, case 'shutdown': ws.close() starts the closing handshake;
\* the close event comes later
shutdownMessage(ws) ==
    /\ ws \in connections
    /\ closing' = closing \cup {ws}
    /\ response' = NoResponse
    /\ sent' = NoneSent
    /\ UNCHANGED <<treeVars, labelVars, connections, connectionRoots, rendererIds, inspectVars,
                   profilerVars, daemonVars, ipcVars, eventVars>>

\* handleMessage, cases 'renderer' and 'rendererAttached'
rendererMessage(ws, id) ==
    /\ ws \in connections
    /\ rendererIds' = rendererIds \cup {id}
    /\ response' = NoResponse
    /\ sent' = NoneSent
    /\ UNCHANGED <<treeVars, labelVars, connections, closing, connectionRoots, inspectVars,
                   profilerVars, daemonVars, ipcVars, eventVars>>

\* the renderer ids that peers announce
RendererIds == {1, 2}

NextHandshake ==
    \/ \E ws \in Peers : Connect(ws)
    \/ SendMount
    \/ \E ws \in Peers : backendInitialized(ws)
    \/ \E ws \in Peers : shutdownMessage(ws)
    \/ \E ws \in Peers, id \in RendererIds : rendererMessage(ws, id)
    \/ \E id \in Ids : inspectElement(id)
    \/ \E ws \in Peers : cleanupConnection(ws)

SpecHandshake == Init /\ [][NextHandshake]_vars

\* the handshake messages among the messages sent to peer p by the step
HandshakeSent(p) == {k \in 1..Len(sent'[p]) : sent'[p][k].event \in HandshakeEvents}

\* C27: each backendInitialized received from a peer makes the bridge send
\* that peer, and no other peer, exactly the five handshake messages in their
\* order, and no handshake message is sent in any other step
C27_HandshakeToSender ==
    [][\A ws \in Peers :
          /\ backendInitialized(ws) =>
                 /\ sent'[ws] = Handshake
                 /\ \A p \in Peers \ {ws} : sent'[p] = <<>>
          /\ HandshakeSent(ws) # {} => backendInitialized(ws)]_vars

\* C27 as amended: the five messages go to a sender whose socket is open;
\* a sender whose socket is closing gets none, and no other peer ever does
C27_HandshakeToOpenSender ==
    [][\A ws \in Peers :
          /\ backendInitialized(ws) =>
                 /\ sent'[ws] = IF isOpen(ws) THEN Handshake ELSE <<>>
                 /\ \A p \in Peers \ {ws} : sent'[p] = <<>>
          /\ HandshakeSent(ws) # {} => backendInitialized(ws) /\ isOpen(ws)]_vars

\* one of two open peers has just been sent the handshake
C27_Witness ==
    \E ws \in Peers :
        /\ sent[ws] = Handshake
        /\ \E p \in connections \ (closing \cup {ws}) : sent[p] = <<>>

----------------------------------------------------------------------------
(* The 'get-component' command from its id field on: daemon.ts:142-154 *)

\* the command up to its await: an id field that resolves to no id is
\* answered at once, any other one goes to the bridge
getComponentCommand(cmdId) ==
    LET resolvedId == resolveId(labelToId, cmdId)
    IN IF resolvedId = Undefined
       THEN /\ response' = [type |-> "component", ok |-> FALSE,
                            error |-> <<"Component", cmdId.string, "not found">>]
            /\ sent' = NoneSent
            /\ UNCHANGED <<treeVars, labelVars, bridgeVars, inspectVars, profilerVars,
                           daemonVars, ipcVars, eventVars>>
       ELSE inspectElement(resolvedId)

\* the id fields of the commands: ids, labels and other strings; "@c3", "7"
\* and "x" name nothing in the trees of the model
CmdIds ==
    {Num(id) : id \in 1..(MaxId + 1)}
        \cup {Str(labelOf(n)) : n \in 1..(MaxId + 1)}
        \cup {Str(<<50>>), Str(<<55>>), Str(<<120>>)}

NextComponent ==
    \/ \E ws \in Peers : Connect(ws)
    \/ SendMount
    \/ \E ws \in Peers : cleanupConnection(ws)
    \/ GetTree(NoLimit)
    \/ \E cmdId \in CmdIds : getComponentCommand(cmdId)
    \/ \E ws \in Peers, id \in Ids :
           handleInspectedElement(ws, [type |-> "no-change", id |-> id, value |-> NoValue])

SpecComponent == Init /\ [][NextComponent]_vars

\* C28: an inspection of an id that has no node resolves with null at once:
\* nothing is sent to any peer, no pending inspection and no timer is
\* installed, and get-component answers 'Component <id> not found'; an id
\* field that resolves to no id gets the same answer and reaches the bridge
\* not at all
C28_AbsentNodeResolvesNull ==
    [][\A cmdId \in CmdIds :
          getComponentCommand(cmdId) =>
              LET resolvedId == resolveId(labelToId, cmdId)
              IN /\ resolvedId = Undefined =>
                        /\ response'.type = "component" /\ ~response'.ok
                        /\ response'.error = <<"Component", cmdId.string, "not found">>
                        /\ requests' = requests
                        /\ pendingInspections' = pendingInspections
                        /\ sent' = NoneSent
                 /\ (resolvedId # Undefined /\ resolvedId \notin DOMAIN nodes) =>
                        /\ Len(requests') = Len(requests) + 1
                        /\ LET req == requests'[Len(requests')]
                           IN /\ req.id = resolvedId
                              /\ req.calls = 1
                              /\ req.value = ResolvedNull
                              /\ req.timer = "none"
                              /\ req.deadline = now
                              /\ getComponent(req) =
                                     [ok |-> FALSE, error |-> <<"Component", resolvedId, "not found">>]
                        /\ \A r \in 1..Len(requests) : requests'[r] = requests[r]
                        /\ pendingInspections' = pendingInspections
                        /\ sent' = NoneSent]_vars

\* with a peer connected and a tree mounted, an inspection of an absent
\* node has resolved at once and a command with an unresolvable id field has
\* been answered
C28_Witness ==
    /\ connections # {}
    /\ nodes # EmptyMap
    /\ \E r \in 1..Len(requests) : requests[r].timer = "none" /\ requests[r].calls = 1
    /\ response.type = "component"

----------------------------------------------------------------------------
(* SpecReorder: the valid batches, and REORDER operations for parents that
   the tree does not hold *)

\* the child lists of the REORDER operations for unknown parents
ChildLists == {cs \in Arrangements(NodeIds, 2) : cs # <<>>}

UnknownReorders(ws) ==
    {Header(1, RootOf(own)) \o ReorderOp(id, cs) :
        own \in Own(ws), id \in NodeIds \ DOMAIN nodes, cs \in ChildLists}

SendUnknownReorder ==
    \E ws \in connections : \E ops \in UnknownReorders(ws) : handleOperations(ws, ops)

NextReorder ==
    \/ Connect(NewBackend)
    \/ SendValid
    \/ SendUnknownReorder
    \/ cleanupConnection(NewBackend)

SpecReorder == Init /\ [][NextReorder]_vars

\* the step is the batch with REORDER_CHILDREN(id, cs) under the header of root
IsReorder(root, id, cs) == handleOperations(NewBackend, Header(1, root) \o ReorderOp(id, cs))

\* the children of q that the step keeps stay in their order, and the
\* children that the step adds to q follow them
AddedBehindKept(q) ==
    LET Kept(c) == c \in DOMAIN nodes'
        kept == SelectSeq(nodes[q].children, Kept)
        new == nodes'[q].children
    IN /\ Len(new) >= Len(kept)
       /\ SubSeq(new, 1, Len(kept)) = kept
       /\ \A k \in (Len(kept) + 1)..Len(new) :
              /\ new[k] \notin DOMAIN nodes
              /\ new[k] \in DOMAIN nodes'
              /\ nodes'[new[k]].parentId = q

\* C29: REORDER_CHILDREN(parent, c1..cn) on a live parent sets the child
\* list of the parent to exactly c1..cn and changes no other node, no root
\* and no index entry; on an unknown parent it changes nothing; and in every
\* step that is no REORDER of a node, the children the node keeps stay in
\* their order and a new child is put behind them, so that the children of a
\* node that never received a REORDER are in the order of their addition
C29_ReorderSetsChildren ==
    [][ /\ \A id \in DOMAIN nodes : \A cs \in Orders(Range(nodes[id].children)) :
               IsReorder(RootOf(id), id, cs) =>
                   /\ nodes' = [nodes EXCEPT ![id].children = cs]
                   /\ roots' = roots
                   /\ nameIndex' = nameIndex
        /\ \A own \in DOMAIN nodes : \A id \in NodeIds \ DOMAIN nodes : \A cs \in ChildLists :
               IsReorder(RootOf(own), id, cs) =>
                   /\ nodes' = nodes
                   /\ roots' = roots
                   /\ nameIndex' = nameIndex
        /\ \A q \in DOMAIN nodes \cap DOMAIN nodes' :
               (\A cs \in Orders(Range(nodes[q].children)) : ~IsReorder(RootOf(q), q, cs)) =>
                   AddedBehindKept(q)
      ]_vars

\* a parent holds its two children in the order opposite to their addition
C29_Witness ==
    \E id \in DOMAIN nodes :
        /\ Len(nodes[id].children) = 2
        /\ nodes[id].children[1] > nodes[id].children[2]

----------------------------------------------------------------------------
(* SpecDepth: the valid batches of one runtime and get-tree with depth limits *)

\* the depth arguments of the get-tree commands
DepthLimits == {NoLimit, 0, 1, 2}

NextDepth ==
    \/ Connect(NewBackend)
    \/ SendValid
    \/ cleanupConnection(NewBackend)
    \/ \E maxDepth \in DepthLimits : GetTree(maxDepth)

SpecDepth == Init /\ [][NextDepth]_vars

\* the depth of a live node: the number of its ancestors
DepthOf(id) == depthOf(nodes, id, Cardinality(DOMAIN nodes))

\* the ids of a sequence of entries
IdsOf(data) == [k \in 1..Len(data) |-> data[k].id]

\* C30: getTree(maxDepth = d) emits exactly the live nodes whose depth is at
\* most d, in the order of the unlimited walk, with the labels @c1, @c2, ...
\* in this order; every entry carries the node's depth and its whole child
\* list, so a parent at depth d lists the children that are not emitted
C30_DepthLimitedTree ==
    (response.type = "tree" /\ response.maxDepth # NoLimit) =>
        LET data == response.data
            d == response.maxDepth
            full == getTree(nodes, roots, NoLimit).result
            Shallow(e) == e.depth <= d
        IN /\ {data[k].id : k \in 1..Len(data)} = {id \in DOMAIN nodes : DepthOf(id) <= d}
           /\ IdsOf(data) = IdsOf(SelectSeq(full, Shallow))
           /\ \A k \in 1..Len(data) :
                  /\ data[k].label = k
                  /\ data[k].depth = DepthOf(data[k].id)
                  /\ data[k].children = nodes[data[k].id].children
                  /\ DOMAIN labelToId = 1..Len(data)
                  /\ labelToId[k] = data[k].id
           /\ \A j, k \in 1..Len(data) : j # k => data[j].id # data[k].id

\* a get-tree with depth 1 on a tree with a node at depth 2: the node is
\* not emitted and its parent is, listing it
C30_Witness ==
    /\ response.type = "tree"
    /\ response.maxDepth = 1
    /\ \E id \in DOMAIN nodes :
           /\ DepthOf(id) = 2
           /\ \A k \in 1..Len(response.data) : response.data[k].id # id
           /\ \E k \in 1..Len(response.data) :
                  /\ response.data[k].id = nodes[id].parentId
                  /\ Includes(response.data[k].children, id)

----------------------------------------------------------------------------
(* findByName: component-tree.ts:397-426 *)

\* String.prototype.includes
stringIncludes(str, sub) ==
    \E k \in 0..(Len(str) - Len(sub)) : SubSeq(str, k + 1, k + Len(sub)) = sub

\* findByName(name, exact): how often each id is among the results (the
\* order of the results is the order of the index, which the model does not
\* keep)
findByName(N, idx, name, exact) ==
    LET lower == toLowerCase(name)
        keys == IF exact THEN {indexName \in DOMAIN idx : indexName = lower}
                ELSE {indexName \in DOMAIN idx : stringIncludes(indexName, lower)}
        hits(id) == {indexName \in keys :
                        /\ id \in idx[indexName]
                        /\ id \in DOMAIN N
                        /\ exact => toLowerCase(N[id].displayName) = lower}
    IN [id \in UNION {idx[indexName] : indexName \in DOMAIN idx} \cup DOMAIN N |->
            Cardinality(hits(id))]

\* the names asked for: "A", "a", "b", "Root", "root", "o" and the empty name
QueryNames == {<<65>>, <<97>>, <<98>>, STR_Root, toLowerCase(STR_Root), <<111>>, <<>>}

\* C31: findByName(n, exact = true) returns exactly the live nodes whose
\* displayName equals n ignoring case, findByName(n, exact = false) exactly
\* the live nodes whose displayName contains n ignoring case, each node once,
\* Root nodes included
C31_FindByNameExactlyLive ==
    \A name \in QueryNames : \A exact \in BOOLEAN :
        LET found == findByName(nodes, nameIndex, name, exact)
            lower == toLowerCase(name)
            Matches(id) == IF exact THEN toLowerCase(nodes[id].displayName) = lower
                           ELSE stringIncludes(toLowerCase(nodes[id].displayName), lower)
        IN \A id \in DOMAIN found :
               found[id] = IF id \in DOMAIN nodes /\ Matches(id) THEN 1 ELSE 0

----------------------------------------------------------------------------
(* SpecRoot: the valid batches, and batches in which an operation follows
   the ADD of a root *)

\* what follows the ADD of root id in its batch: nothing, an opcode of the
\* new backend, or the ADD of a child of the root in the shape that the
\* decoder reads
Follows(id) ==
    {<<>>, SuspenseOp} \cup {AddValid(child, id, 1) : child \in NodeIds \ (DOMAIN nodes \cup {id})}

\* the roots that are mounted: new ones, and the live roots once more
Mountable == (NodeIds \ DOMAIN nodes) \cup Range(roots)

SendRoot ==
    /\ NewBackend \in connections
    /\ \E id \in Mountable : \E follow \in Follows(id) :
           handleOperations(NewBackend, Header(1, id) \o AddRootOp(id) \o follow)

NextRoot ==
    \/ Connect(NewBackend)
    \/ SendValid
    \/ SendRoot
    \/ cleanupConnection(NewBackend)

SpecRoot == Init /\ [][NextRoot]_vars

\* the node that the ADD of a root creates
RootNode == [displayName |-> STR_Root, type |-> "other", key |-> NullStr,
             parentId |-> Null, children |-> <<>>, rendererId |-> 1]

\* how often id is in the sequence
Occurrences(seq, id) == Cardinality({k \in 1..Len(seq) : seq[k] = id})

\* C32: the ADD of a Root consumes exactly seven integers in the short and
\* in the extended mode, so that the operation behind it is decoded as it
\* was written, and creates a node named 'Root' of kind other with null
\* parent and no children, whose id is in roots exactly once
C32_RootAdd ==
    [][\A id \in Mountable :
          /\ \A follow \in {<<>>, SuspenseOp} :
                 handleOperations(NewBackend, Header(1, id) \o AddRootOp(id) \o follow) =>
                     /\ nodes' = MapSet(nodes, id, RootNode)
                     /\ Occurrences(roots', id) = 1
                     /\ extendedAddFormat' = (extendedAddFormat \/ follow = SuspenseOp)
          /\ \A child \in NodeIds \ (DOMAIN nodes \cup {id}) :
                 handleOperations(NewBackend, Header(1, id) \o AddRootOp(id) \o AddValid(child, id, 1)) =>
                     /\ DOMAIN nodes' = DOMAIN nodes \cup {id, child}
                     /\ nodes'[id] = [RootNode EXCEPT !.children = <<child>>]
                     /\ nodes'[child].parentId = id
                     /\ nodes'[child].displayName = <<65>>
                     /\ Occurrences(roots', id) = 1
                     /\ extendedAddFormat' = extendedAddFormat]_vars

\* a root was mounted in the extended mode with a child behind it in the
\* same batch, and a live root was mounted once more
C32_Witness ==
    /\ extendedAddFormat
    /\ \E id \in Range(roots) : \E child \in DOMAIN nodes :
           /\ nodes[id].children = <<child>>
           /\ nodes[child].parentId = id
    /\ \E id \in Range(roots) : \E child \in DOMAIN nodes :
           /\ nodes[child].parentId = id
           /\ ~Includes(nodes[id].children, child)

----------------------------------------------------------------------------
(* Profiler.getSlowest, getMostRerenders and getAllReports:
   part_007:241-257 and 305-322 *)

\* the default of the limit parameter
DEFAULT_LIMIT == 10

\* Set.prototype.add of every key, in the order of the first occurrence
RECURSIVE addKeys(_, _)
addKeys(ids, keys) ==
    IF keys = <<>> THEN ids
    ELSE addKeys(IF Includes(ids, Head(keys)) THEN ids ELSE Append(ids, Head(keys)), Tail(keys))

RECURSIVE componentIdsOf(_, _)
componentIdsOf(commits, ids) ==
    IF commits = <<>> THEN ids
    ELSE componentIdsOf(Tail(commits), addKeys(ids, OMapKeys(Head(commits).fiberActualDurations)))

\* the reports of the ids, without the null ones
RECURSIVE reportsOf(_, _, _, _)
reportsOf(S, N, DN, ids) ==
    IF ids = <<>> THEN <<>>
    ELSE LET report == getReport(S, N, DN, Head(ids))
         IN (IF report.exists THEN <<report>> ELSE <<>>) \o reportsOf(S, N, DN, Tail(ids))

getAllReports(S, N, DN) ==
    IF ~S.exists THEN <<>> ELSE reportsOf(S, N, DN, componentIdsOf(S.commits, <<>>))

\* b.avgDuration - a.avgDuration > 0, on the quotients
SlowerThan(b, a) == b.avgDuration.num * a.avgDuration.den > a.avgDuration.num * b.avgDuration.den

\* Array.prototype.sort((a, b) => b.avgDuration - a.avgDuration): stable
RECURSIVE insertByAvg(_, _)
insertByAvg(sorted, e) ==
    IF sorted = <<>> THEN <<e>>
    ELSE IF ~SlowerThan(e, Head(sorted)) THEN <<Head(sorted)>> \o insertByAvg(Tail(sorted), e)
    ELSE <<e>> \o sorted

RECURSIVE sortByAvg(_, _)
sortByAvg(seq, sorted) ==
    IF seq = <<>> THEN sorted ELSE sortByAvg(Tail(seq), insertByAvg(sorted, Head(seq)))

\* Array.prototype.sort((a, b) => b.renderCount - a.renderCount): stable
RECURSIVE insertByRenders(_, _)
insertByRenders(sorted, e) ==
    IF sorted = <<>> THEN <<e>>
    ELSE IF Head(sorted).renderCount >= e.renderCount
    THEN <<Head(sorted)>> \o insertByRenders(Tail(sorted), e)
    ELSE <<e>> \o sorted

RECURSIVE sortByRenders(_, _)
sortByRenders(seq, sorted) ==
    IF seq = <<>> THEN sorted ELSE sortByRenders(Tail(seq), insertByRenders(sorted, Head(seq)))

\* Array.prototype.slice(0, limit) for a limit that is no negative number;
\* the parameter defaults to 10 when the argument is undefined
sliceTo(seq, limit) ==
    LET n == IF limit = Undefined THEN DEFAULT_LIMIT ELSE limit
    IN SubSeq(seq, 1, IF n < Len(seq) THEN n ELSE Len(seq))

\* a getSlowest that returns all the reports
getSlowestUncut(S, N, DN, limit) == sortByAvg(getAllReports(S, N, DN), <<>>)

getSlowest(S, N, DN, limit) == sliceTo(sortByAvg(getAllReports(S, N, DN), <<>>), limit)

getMostRerenders(S, N, DN, limit) == sliceTo(sortByRenders(getAllReports(S, N, DN), <<>>), limit)

\* the limit arguments of the commands: none, and 0, 1, 2
Limits == {Undefined, 0, 1, 2}

\* the ids that occur in the actual-duration map of some commit
ProfiledIds == {id \in ReportIds : CommitsWith(id) # {}}

\* the entries of a result are the reports of different profiled ids, as
\* many as the limit allows, and no report left out ranks before one of them
CutOfReports(result, limit, Before(_, _)) ==
    LET n == IF limit = Undefined THEN DEFAULT_LIMIT ELSE limit
        want == IF n < Cardinality(ProfiledIds) THEN n ELSE Cardinality(ProfiledIds)
    IN /\ Len(result) = want
       /\ \A k \in 1..Len(result) :
              /\ result[k].id \in ProfiledIds
              /\ result[k] = getReport(session, nodes, displayNames, result[k].id)
       /\ \A j, k \in 1..Len(result) : j < k =>
              /\ result[j].id # result[k].id
              /\ ~Before(result[k], result[j])
       /\ \A id \in ProfiledIds :
              (\A k \in 1..Len(result) : result[k].id # id) =>
                  \A k \in 1..Len(result) :
                      ~Before(getReport(session, nodes, displayNames, id), result[k])

MoreRenders(b, a) == b.renderCount > a.renderCount

----------------------------------------------------------------------------
(* SpecLatch: the valid batches of one runtime, and batches in which an
   opcode of the new backend stands between two ADDs *)

\* ADD of a in the shape that the decoder reads, opcode 13, ADD of b in the
\* extended shape, both under parent
LatchBatches ==
    {Header(1, RootOf(parent)) \o AddValid(a, parent, 1) \o SuspenseOp \o AddOpExtended(b, parent, 2) :
        parent \in Own(NewBackend), a \in NodeIds \ DOMAIN nodes, b \in NodeIds \ DOMAIN nodes}
    \ {Header(1, RootOf(parent)) \o AddValid(a, parent, 1) \o SuspenseOp \o AddOpExtended(a, parent, 2) :
        parent \in Own(NewBackend), a \in NodeIds \ DOMAIN nodes}

SendLatch ==
    /\ NewBackend \in connections
    /\ \E ops \in LatchBatches : handleOperations(NewBackend, ops)

NextLatch ==
    \/ Connect(NewBackend)
    \/ SendValid
    \/ SendLatch
    \/ cleanupConnection(NewBackend)

SpecLatch == Init /\ [][NextLatch]_vars

\* an opcode of 8..13 was decoded in the batch before the cursor cs[k]
LatchedBefore(ops, cs, k) ==
    \E j \in 1..(k - 1) :
        /\ At(ops, cs[j]) >= SUSPENSE_TREE_OPERATION_ADD
        /\ At(ops, cs[j]) <= TREE_OPERATION_APPLIED_ACTIVITY_SLICE_CHANGE

\* every ADD of the batch that is no Root is read in the 7-value shape before
\* the first opcode of 8..13 and in the 8-value shape after it
ReadInPosition(ops) ==
    LET cs == cursors(Tree, ops)
    IN \A k \in 1..(Len(cs) - 1) :
           (At(ops, cs[k]) = TREE_OPERATION_ADD /\ At(ops, cs[k] + 2) # ELEMENT_TYPE_ROOT) =>
               cs[k + 1] - cs[k] = IF extendedAddFormat \/ LatchedBefore(ops, cs, k) THEN 8 ELSE 7

\* C34: the extended-ADD flag never returns to false, and it is positional:
\* an ADD that is no Root is read in the 7-value shape when no opcode of
\* 8..13 was decoded before it, in an earlier batch or earlier in its batch,
\* and in the 8-value shape otherwise
C34_LatchPositional ==
    [][ /\ extendedAddFormat => extendedAddFormat'
        /\ \A ops \in ValidBatches(NewBackend) \cup LatchBatches :
               handleOperations(NewBackend, ops) =>
                   /\ ReadInPosition(ops)
                   /\ extendedAddFormat' =
                          (extendedAddFormat \/ LatchedBefore(ops, cursors(Tree, ops), Len(cursors(Tree, ops))))
        /\ \A parent \in DOMAIN nodes : \A a, b \in NodeIds \ DOMAIN nodes :
               (a # b /\ handleOperations(NewBackend,
                            Header(1, RootOf(parent)) \o AddValid(a, parent, 1) \o SuspenseOp
                                \o AddOpExtended(b, parent, 2))) =>
                   /\ DOMAIN nodes' = DOMAIN nodes \cup {a, b}
                   /\ nodes'[a].displayName = <<65>> /\ nodes'[a].parentId = parent
                   /\ nodes'[b].displayName = <<98>> /\ nodes'[b].parentId = parent
                   /\ extendedAddFormat'
      ]_vars

\* a batch has switched the flag between its two ADDs, the runtime has left,
\* and the flag is still set
C34_Witness ==
    /\ extendedAddFormat
    /\ connections = {}
    /\ nodes = EmptyMap

----------------------------------------------------------------------------
(* SpecSkip: the valid batches of one runtime, and batches in which an
   opcode that the decoder only consumes stands before an ADD *)

\* the operations of the opcodes 8..13, with null rects, no rects and one
\* rect, and with counts 0, 1 and 2; their operands are ids and opcodes
SuspenseOps ==
    {<<SUSPENSE_TREE_OPERATION_ADD, 2, 1, 1, 0, 0 - 1>>,
     <<SUSPENSE_TREE_OPERATION_ADD, 2, 1, 1, 0, 0>>,
     <<SUSPENSE_TREE_OPERATION_ADD, 2, 1, 1, 0, 1, 2, 1, 6, 2>>,
     <<SUSPENSE_TREE_OPERATION_REMOVE, 0>>,
     <<SUSPENSE_TREE_OPERATION_REMOVE, 2, 1, 2>>,
     <<SUSPENSE_TREE_OPERATION_REORDER_CHILDREN, 1, 0>>,
     <<SUSPENSE_TREE_OPERATION_REORDER_CHILDREN, 1, 2, 3, 2>>,
     <<SUSPENSE_TREE_OPERATION_RESIZE, 1, 0 - 1>>,
     <<SUSPENSE_TREE_OPERATION_RESIZE, 1, 1, 2, 1, 6, 2>>,
     <<SUSPENSE_TREE_OPERATION_SUSPENDERS, 0>>,
     <<SUSPENSE_TREE_OPERATION_SUSPENDERS, 1, 2, 1, 1, 2>>,
     <<TREE_OPERATION_APPLIED_ACTIVITY_SLICE_CHANGE, 1>>}

\* the operations of the opcodes 4..7 with ids of the tree as operands
SkippedOps == IgnoredOps \cup {<<TREE_OPERATION_UPDATE_TREE_BASE_DURATION, 2, 1>>,
                               <<TREE_OPERATION_UPDATE_ERRORS_OR_WARNINGS, 2, 2, 1>>,
                               <<TREE_OPERATION_SET_SUBTREE_MODE, 2, 2>>}

\* the ADD behind a consumed operation, in the shape that the decoder reads
\* after it
AddBehind(op, id, parentId) ==
    IF extendedAddFormat \/ op \in SuspenseOps
    THEN AddOpExtended(id, parentId, 2) ELSE AddOp(id, parentId, 2)

SkipBatches ==
    UNION {{Header(1, RootOf(parent)) \o op \o AddBehind(op, id, parent),
            Header(1, RootOf(parent)) \o op} :
              <<parent, id, op>> \in Own(NewBackend) \X (NodeIds \ DOMAIN nodes)
                                         \X (SkippedOps \cup SuspenseOps)}

SendSkip ==
    /\ NewBackend \in connections
    /\ \E ops \in SkipBatches : handleOperations(NewBackend, ops)

NextSkip ==
    \/ Connect(NewBackend)
    \/ SendValid
    \/ SendSkip
    \/ cleanupConnection(NewBackend)

SpecSkip == Init /\ [][NextSkip]_vars

\* C35: an operation of the opcodes 4, 5, 6, 7 and 8..13 consumes exactly
\* its opcode and its payload, whose length follows the counts and the rects
\* it carries, and changes no node, no root, no child list and no entry of the
\* name index, REMOVE_ROOT included; the ADD behind it is decoded as written
C35_ConsumedOnly ==
    [][\A parent \in DOMAIN nodes : \A op \in SkippedOps \cup SuspenseOps :
          /\ handleOperations(NewBackend, Header(1, RootOf(parent)) \o op) =>
                 /\ nodes' = nodes /\ roots' = roots /\ nameIndex' = nameIndex
                 /\ cursors(Tree, Header(1, RootOf(parent)) \o op)
                        = <<Len(Header(1, 1)), Len(Header(1, 1)) + Len(op)>>
          /\ \A id \in NodeIds \ DOMAIN nodes :
                 handleOperations(NewBackend,
                                  Header(1, RootOf(parent)) \o op \o AddBehind(op, id, parent)) =>
                     /\ DOMAIN nodes' = DOMAIN nodes \cup {id}
                     /\ nodes'[id].displayName = <<98>>
                     /\ nodes'[id].parentId = parent
                     /\ nodes'[parent].children = Append(nodes[parent].children, id)
                     /\ \A q \in DOMAIN nodes \ {parent} : nodes'[q] = nodes[q]
                     /\ roots' = roots
                     /\ DOMAIN nameIndex' = DOMAIN nameIndex \cup {<<98>>}
                     /\ extendedAddFormat' = (extendedAddFormat \/ op \in SuspenseOps)]_vars

\* operations of the opcodes 8..13 were consumed and two components were
\* added behind such operations under a root that is still there
C35_Witness ==
    /\ extendedAddFormat
    /\ \E root \in Range(roots) : Len(nodes[root].children) = 2

----------------------------------------------------------------------------
(* the opcode loop over batches whose count fields are negative *)

\* iterations of the opcode loop that are followed
MaxSteps == 6

\* the cursor positions of the first iterations of the opcode loop
RECURSIVE cursorsWithin(_, _, _, _, _)
cursorsWithin(T, ops, i, table, steps) ==
    IF T.threw \/ ~Lt(i, Len(ops)) \/ steps = 0 THEN <<i>>
    ELSE LET s == step(T, ops, i, table)
         IN <<i>> \o cursorsWithin(s.T, ops, s.i, table, steps - 1)

\* batches with an empty string table and one operation whose count field
\* (REMOVE count, child count, numChanges, rects count) is negative
NegativeCounts ==
    {<<1, 1, 0>> \o op : op \in
        {<<TREE_OPERATION_REMOVE, 0 - 1>>,
         <<TREE_OPERATION_REMOVE, 0 - 2>>,
         <<TREE_OPERATION_REORDER_CHILDREN, 1, 0 - 3>>,
         <<TREE_OPERATION_REORDER_CHILDREN, 1, 0 - 4>>,
         <<SUSPENSE_TREE_OPERATION_ADD, 2, 1, 0, 0, 0 - 2>>,
         <<SUSPENSE_TREE_OPERATION_REMOVE, 0 - 2>>,
         <<SUSPENSE_TREE_OPERATION_REORDER_CHILDREN, 1, 0 - 3>>,
         <<SUSPENSE_TREE_OPERATION_RESIZE, 1, 0 - 2>>,
         <<SUSPENSE_TREE_OPERATION_SUSPENDERS, 0 - 1>>}}

\* C36: every iteration of the opcode loop moves the cursor strictly
\* forward, also over a batch whose count field is negative, so that
\* applyOperations terminates
C36_CursorForward ==
    \A ops \in NegativeCounts :
        LET cs == cursorsWithin(Tree, ops, 3, <<>>, MaxSteps)
        IN \A k \in 1..(Len(cs) - 1) : Lt(cs[k], cs[k + 1])

\* the REMOVE with the count -2 leaves the cursor where it is, for ever
C36_Stuck ==
    cursorsWithin(Tree, <<1, 1, 0, TREE_OPERATION_REMOVE, 0 - 2>>, 3, <<>>, MaxSteps)
        = [k \in 1..(MaxSteps + 1) |-> 3]

----------------------------------------------------------------------------
(* the child lists and the parentId chain as relations over the live nodes *)

\* the pairs <<node, child>> that getTree's walk and removeNode follow
ChildEdges(N) ==
    {e \in (DOMAIN N) \X (DOMAIN N) : \E k \in 1..Len(N[e[1]].children) : N[e[1]].children[k] = e[2]}

\* the pairs <<node, parent>> that the depth walk of toTreeNode follows
ParentEdges(N) == {e \in (DOMAIN N) \X (DOMAIN N) : N[e[1]].parentId = e[2]}

\* the nodes reached from the set S over at most k edges
RECURSIVE Reached(_, _, _)
Reached(E, S, k) ==
    IF k = 0 THEN S
    ELSE Reached(E, S \cup {e[2] : e \in {d \in E : d[1] \in S}}, k - 1)

\* no node is reached from itself over one edge or more
Acyclic(E, ids) ==
    \A id \in ids : id \notin Reached(E, {e[2] : e \in {d \in E : d[1] = id}}, Cardinality(ids))

\* C37: after any sequence of batches no node is its own ancestor, neither
\* in the child lists nor in the parentId chain, so that the walks of getTree,
\* removeNode and findByName terminate
C37_Acyclic ==
    /\ Acyclic(ChildEdges(nodes), DOMAIN nodes)
    /\ Acyclic(ParentEdges(nodes), DOMAIN nodes)

----------------------------------------------------------------------------
(* the order of the responses on one IPC connection *)

\* the position of the k-th Newline of a text
nthNewline(input, k) ==
    CHOOSE j \in NewlinesOf(input) : Cardinality({x \in NewlinesOf(input) : x <= j}) = k

\* the response that answers a request line
answers(r, line) ==
    IF line \notin JsonTexts THEN isInvalidJson(r)
    ELSE IF line = <<"{", "bogus", "}">> THEN isUnknownCommand(r, "bogus")
    ELSE IF line = <<"{", "}">> THEN isUnknownCommand(r, "undefined")
    ELSE IF line = <<"{", "ping", "}">> THEN r.ok /\ r.data = [text |-> "pong"]
    ELSE IF line = <<"{", "profile-start", "}">> THEN r.ok /\ r.data = [text |-> "Profiling started"]
    ELSE IF line = <<"{", "status", "}">> THEN r.ok /\ DOMAIN r.data # DOMAIN NoData
    ELSE ~r.ok /\ ~isInvalidJson(r)

\* C38: the responses on one IPC connection are written in the order in
\* which their request lines were received: the k-th response that a data
\* event adds answers the k-th line that the event completes
C38_ResponsesInOrder ==
    [][\A chunk \in IpcChunks : ipcData(chunk) =>
          LET input == ipcBuffer \o chunk
              added == SubSeq(ipcOut', Len(ipcOut) + 1, Len(ipcOut'))
          IN \A k \in 1..Len(added) : answers(added[k], lineBefore(input, nthNewline(input, k)))]_vars

----------------------------------------------------------------------------
(* profile-start while a profile-stop waits in its grace window *)

\* C39: profile-stop finalizes and returns the session that was active when
\* the command was received: a session that a profile-start created after
\* that is neither stopped by this profile-stop nor reported in its summary
C39_StopsSessionOfReceipt ==
    [][(profileStopEnd /\ session.exists /\ session.startedAt > Head(stopsPending)) =>
          /\ session'.stoppedAt = session.stoppedAt
          /\ ~(response'.ok /\ response'.data.name = session.name)]_vars

----------------------------------------------------------------------------
(* two clients that call ensureDaemon while no daemon is running *)

\* both daemons have finished start() or have failed in it, and no signal
\* has ended either of them
BothSettled ==
    /\ DOMAIN procs = {1, 2}
    /\ \A p \in DOMAIN procs : \/ procs[p].pc = "running"
                               \/ procs[p].pc = "exited" /\ procs[p].exit = "1"

\* C40: when two clients have called ensureDaemon on the same state
\* directory while no daemon was running, at most one daemon survives and
\* it is reachable: daemon.json names its pid and the socket file is the
\* one it listens on
C40_OneReachableSurvivor ==
    BothSettled =>
        LET alive == {p \in DOMAIN procs : procs[p].pc = "running"}
        IN /\ Cardinality(alive) <= 1
           /\ \A p \in alive : files.json = p /\ files.sock = p

====
